---------------------------- MODULE Spec2Model ----------------------------
(*
  A model of the request handler of the file server (src/src/server.rs,
  Server::handle and the handlers it dispatches to) over a small explicit
  filesystem.

  The filesystem is a function from physical paths (sequences of names,
  <<>> being "/") to nodes.  The program's paths are lexical: the root
  joined with the request's segments, which may hold ".." and may go through
  symbolic links; the operating system resolves them (Walk).
*)
EXTENDS Integers, Sequences, FiniteSets, TLC

VARIABLES args, fs, old, req, res, ev, pc, nreq, uploads, zip

vars == <<args, fs, old, req, res, ev, pc, nreq, uploads, zip>>

-----------------------------------------------------------------------------
(* Bounds *)

\* Longest request body (PUT payload), in bytes.
MaxBody == 1
\* Requests handled in one run.
MaxReqs == 2

Bytes == {1, 2}

RECURSIVE SeqsUpTo(_, _)
SeqsUpTo(S, n) ==
  IF n = 0 THEN {<<>>}
  ELSE LET shorter == SeqsUpTo(S, n - 1)
       IN  shorter \cup {Append(s, x) : s \in {t \in shorter : Len(t) = n - 1}, x \in S}

Bodies == SeqsUpTo(Bytes, MaxBody)

\* A let binding: the value is computed once and handed to what follows.
With(v, Then(_)) == Then(v)

-----------------------------------------------------------------------------
(* Paths and nodes *)

INDEX_NAME == "index.html"
FAVICON == "favicon.ico"
DotDot == ".."

\* args.path: the canonical root.
Root == <<"srv">>

Parent(p) == IF p = <<>> THEN <<>> ELSE SubSeq(p, 1, Len(p) - 1)
Last(p) == p[Len(p)]

\* Path::starts_with, Path::strip_prefix: component-wise.
StartsWith(p, base) == Len(base) <= Len(p) /\ SubSeq(p, 1, Len(base)) = base
StripPrefix(p, base) == SubSeq(p, Len(base) + 1, Len(p))

\* PathBuf::join of a relative path.
Join(base, rel) == base \o rel

\* mtime: the modification time in milliseconds since the epoch.  Every file
\* the tree starts with, and every file a request writes, has mtime 0; the
\* files of InitFile have other times.
\* mode: the permission bits of the server's user on the node; every node is
\* made "rwx", and a directory can be "--x": its entries can be reached but
\* not listed, added, removed or renamed.
DirNode == [kind |-> "dir", data |-> <<>>, target |-> <<>>, mtime |-> 0, mode |-> "rwx"]
FileNode(d) == [kind |-> "file", data |-> d, target |-> <<>>, mtime |-> 0, mode |-> "rwx"]
LinkNode(t) == [kind |-> "link", data |-> <<>>, target |-> t, mtime |-> 0, mode |-> "rwx"]
FileAt(d, t) == [FileNode(d) EXCEPT !.mtime = t]

\* The tree the server starts on: the root /srv with a non-empty file, an
\* empty file, a directory with a file in it and a symbolic link that leaves
\* the root; /out is outside the root.
InitFs ==
  (<<>> :> DirNode) @@
  (<<"srv">> :> DirNode) @@
  (<<"srv", INDEX_NAME>> :> FileNode(<<1>>)) @@
  (<<"srv", "e">> :> FileNode(<<>>)) @@
  (<<"srv", "d">> :> DirNode) @@
  (<<"srv", "d", "g">> :> FileNode(<<2>>)) @@
  (<<"srv", "lnk">> :> LinkNode(<<"out">>)) @@
  (<<"out">> :> DirNode) @@
  (<<"out", "s">> :> FileNode(<<2>>))

-----------------------------------------------------------------------------
(* The operating system's path resolution and file operations *)

\* Resolution of the absolute lexical path comps, from the resolved
\* directory cur.  follow: whether a symbolic link in the last component is
\* followed (stat, open) or not (lstat, unlink, rename, mkdir).
\* st: "ok" (p exists), "creat" (p does not exist, its parent is a directory),
\* "noent", "notdir".
RECURSIVE WalkFrom(_, _, _, _)
WalkFrom(f, cur, comps, follow) ==
  IF comps = <<>> THEN [p |-> cur, st |-> "ok"]
  ELSE IF f[cur].kind # "dir" THEN [p |-> cur, st |-> "notdir"]
  ELSE LET c == Head(comps)
           rest == Tail(comps)
           nxt == Append(cur, c)
       IN  IF c = DotDot THEN WalkFrom(f, Parent(cur), rest, follow)
           ELSE IF nxt \notin DOMAIN f
             THEN IF rest = <<>> THEN [p |-> nxt, st |-> "creat"]
                                 ELSE [p |-> nxt, st |-> "noent"]
           ELSE IF f[nxt].kind = "link"
             THEN IF rest = <<>> /\ ~follow THEN [p |-> nxt, st |-> "ok"]
                  ELSE WalkFrom(f, <<>>, f[nxt].target \o rest, follow)
           ELSE WalkFrom(f, nxt, rest, follow)

Walk(f, lex, follow) == WalkFrom(f, <<>>, lex, follow)

\* fs::metadata (stat) and fs::symlink_metadata (lstat).  mustdir: the path
\* was written with a trailing slash, which only a directory satisfies.
Stat(f, lex, follow, mustdir) ==
  With(Walk(f, lex, follow), LAMBDA w :
    IF w.st = "ok" /\ (mustdir => f[w.p].kind = "dir")
    THEN [p |-> w.p, kind |-> f[w.p].kind, ok |-> TRUE, len |-> Len(f[w.p].data),
          modified |-> f[w.p].mtime]
    ELSE [p |-> <<>>, kind |-> "none", ok |-> FALSE, len |-> 0, modified |-> 0])

Metadata(f, lex) == Stat(f, lex, TRUE, FALSE)
SymlinkMetadata(f, lex) == Stat(f, lex, FALSE, FALSE)

\* Path::is_dir.
IsDirPath(f, lex) == Metadata(f, lex).kind = "dir"

\* fs::canonicalize: the physical path, or failure.
Canonicalize(f, lex) == Metadata(f, lex)

Put(f, p, node) == (p :> node) @@ f

Without(f, gone) == [q \in DOMAIN f \ gone |-> f[q]]

Subtree(f, p) == {q \in DOMAIN f : StartsWith(q, p)}

\* The directory at p exists and denies reading and writing (EACCES).
Locked(f, p) == p \in DOMAIN f /\ f[p].kind = "dir" /\ f[p].mode = "--x"

\* What a walk from top meets: everything below top that is not below a
\* directory it cannot read.
WalkDir(f, top) ==
  {q \in Subtree(f, top) :
     \A d \in Subtree(f, top) : (StartsWith(q, d) /\ q # d) => ~Locked(f, d)}

\* What the tree below p looks like, by paths relative to p.
Shape(f, p) == [s \in {StripPrefix(q, p) : q \in Subtree(f, p)} |-> f[p \o s]]

\* fs::create_dir_all: mkdir, on ENOENT the parent first and mkdir again; an
\* error is forgiven when the path is a directory already.
RECURSIVE CreateDirAll(_, _)
CreateDirAll(f, lex) ==
  IF lex = <<>> THEN [fs |-> f, ok |-> TRUE]
  ELSE With(Walk(f, lex, FALSE), LAMBDA w :
         IF w.st = "creat" /\ Locked(f, Parent(w.p)) THEN [fs |-> f, ok |-> FALSE]
         ELSE IF w.st = "creat" THEN [fs |-> Put(f, w.p, DirNode), ok |-> TRUE]
         ELSE IF w.st = "noent"
           THEN With(CreateDirAll(f, Parent(lex)), LAMBDA up :
                  IF ~up.ok THEN up
                  ELSE With(Walk(up.fs, lex, FALSE), LAMBDA w2 :
                         IF w2.st = "creat" /\ ~Locked(up.fs, Parent(w2.p))
                         THEN [fs |-> Put(up.fs, w2.p, DirNode), ok |-> TRUE]
                         ELSE [fs |-> up.fs, ok |-> IsDirPath(up.fs, lex)]))
         ELSE [fs |-> f, ok |-> IsDirPath(f, lex)])

\* File::create: open with O_CREAT | O_TRUNC, following links.
FileCreate(f, lex) ==
  With(Walk(f, lex, TRUE), LAMBDA w :
    IF (w.st = "creat" /\ ~Locked(f, Parent(w.p))) \/ (w.st = "ok" /\ f[w.p].kind = "file")
    THEN [fs |-> Put(f, w.p, FileNode(<<>>)), p |-> w.p, ok |-> TRUE]
    ELSE [fs |-> f, p |-> <<>>, ok |-> FALSE])

\* fs::remove_file: unlink, which does not follow a link and refuses a
\* directory.
RemoveFile(f, lex) ==
  With(Walk(f, lex, FALSE), LAMBDA w :
    IF w.st = "ok" /\ f[w.p].kind # "dir" /\ ~Locked(f, Parent(w.p))
    THEN [fs |-> Without(f, {w.p}), ok |-> TRUE]
    ELSE [fs |-> f, ok |-> FALSE])

\* fs::remove_dir_all: a symbolic link is removed itself, a directory with
\* everything below it.  A directory that cannot be read is left as it is; a
\* directory whose parent cannot be written is emptied, and then its own
\* removal fails.  (No tree here has a directory that cannot be read below
\* the one removed.)
RemoveDirAll(f, lex) ==
  With(Walk(f, lex, FALSE), LAMBDA w :
    IF w.st = "ok" /\ f[w.p].kind = "link"
      THEN IF Locked(f, Parent(w.p)) THEN [fs |-> f, ok |-> FALSE]
           ELSE [fs |-> Without(f, {w.p}), ok |-> TRUE]
    ELSE IF w.st = "ok" /\ f[w.p].kind = "dir"
      THEN IF Locked(f, w.p) THEN [fs |-> f, ok |-> FALSE]
           ELSE IF w.p # <<>> /\ Locked(f, Parent(w.p))
             THEN [fs |-> Without(f, Subtree(f, w.p) \ {w.p}), ok |-> FALSE]
           ELSE [fs |-> Without(f, Subtree(f, w.p)), ok |-> TRUE]
    ELSE [fs |-> f, ok |-> FALSE])

\* fs::copy: the source must be a regular file (through links); the
\* destination is created or truncated, then the source's bytes, as they are
\* after that, are written to it.
FsCopy(f, from, to) ==
  With(Metadata(f, from), LAMBDA src :
    IF ~src.ok \/ src.kind # "file" THEN [fs |-> f, ok |-> FALSE]
    ELSE With(FileCreate(f, to), LAMBDA dst :
           IF ~dst.ok THEN [fs |-> f, ok |-> FALSE]
           ELSE [fs |-> Put(dst.fs, dst.p, FileNode(dst.fs[src.p].data)),
                 ok |-> TRUE]))

\* fs::rename: neither path's last link is followed; a path renamed onto
\* itself is left alone; a directory replaces only an empty directory and is
\* never moved below itself; a file never replaces a directory.
\* The tree with everything at and below s moved to d.
Moved(f, s, d) ==
  [q \in {d \o StripPrefix(m, s) : m \in Subtree(f, s)} |-> f[s \o StripPrefix(q, d)]]
    @@ Without(f, Subtree(f, s) \cup {d})

FsRename(f, from, to) ==
  With(Walk(f, from, FALSE), LAMBDA s : With(Walk(f, to, FALSE), LAMBDA d :
    IF s.st # "ok" \/ d.st \notin {"ok", "creat"} THEN [fs |-> f, ok |-> FALSE]
    ELSE IF s.p = <<>> \/ d.p = <<>> THEN [fs |-> f, ok |-> FALSE]
    ELSE IF s.p = d.p THEN [fs |-> f, ok |-> TRUE]
    ELSE IF Locked(f, Parent(s.p)) \/ Locked(f, Parent(d.p)) THEN [fs |-> f, ok |-> FALSE]
    ELSE IF StartsWith(d.p, s.p) \/ StartsWith(s.p, d.p) THEN [fs |-> f, ok |-> FALSE]
    ELSE IF d.st = "ok" /\ f[s.p].kind = "dir"
            /\ (f[d.p].kind # "dir" \/ Subtree(f, d.p) # {d.p})
      THEN [fs |-> f, ok |-> FALSE]
    ELSE IF d.st = "ok" /\ f[s.p].kind # "dir" /\ f[d.p].kind = "dir"
      THEN [fs |-> f, ok |-> FALSE]
    ELSE [fs |-> Moved(f, s.p, d.p), ok |-> TRUE]))

-----------------------------------------------------------------------------
(* Requests and responses *)

BadEscape == "%zz"

NoDest == [some |-> FALSE, segs |-> <<>>]
Dest(segs) == [some |-> TRUE, segs |-> segs]

\* An entity tag: weak (W/"...") or strong, and the opaque text, which for
\* the tags of this server is <<mtime in ms, size>>.
Tag(weak, ms, size) == [v |-> <<ms, size>>, weak |-> weak]

\* The Range header: absent, a unit other than bytes, "bytes=-N" (a suffix,
\* which has no start), "bytes=N-" (open) or "bytes=N-M" (closed).
NoRange == [kind |-> "absent", start |-> 0, end |-> 0]
OtherUnit == [kind |-> "unit", start |-> 0, end |-> 0]
Suffix(n) == [kind |-> "suffix", start |-> 0, end |-> n]
From(n) == [kind |-> "open", start |-> n, end |-> 0]
FromTo(n, m) == [kind |-> "closed", start |-> n, end |-> m]

\* If-None-Match: absent, "*" or a list of tags.  If-Modified-Since: absent
\* or a date, in seconds.  If-Range: absent, a tag or a date.
NoMatch == [kind |-> "absent", tags |-> {}]
AnyTag == [kind |-> "any", tags |-> {}]
Tags(ts) == [kind |-> "tags", tags |-> ts]
NoDate == [kind |-> "absent", secs |-> 0]
Date(s) == [kind |-> "date", secs |-> s]
NoIfRange == [kind |-> "absent", secs |-> 0, tag |-> Tag(FALSE, 0, 0)]
IfRangeTag(t) == [kind |-> "tag", secs |-> 0, tag |-> t]
IfRangeDate(s) == [kind |-> "date", secs |-> s, tag |-> Tag(FALSE, 0, 0)]

\* A request: method, the segments of the URI path, whether the path ends
\* with '/', the query, the credentials of the Authorization header ("none":
\* no header), the Destination and Depth headers, the body; it carries no
\* Range and no conditional header unless they are set afterwards.
Request(m, segs, slash, query, cred, dest, depth, body) ==
  [segs |-> segs, slash |-> slash, query |-> query, cred |-> cred, dest |-> dest,
   depth |-> depth, body |-> body, method |-> m,
   range |-> NoRange, if_none_match |-> NoMatch, if_modified_since |-> NoDate,
   if_range |-> NoIfRange]

\* Response::default().
\* etag, last_modified (seconds) and content_range are the values of the
\* headers of these names when hdrs holds them.
NoContentRange == [kind |-> "absent", size |-> 0, start |-> 0, end |-> 0]
DefaultResponse ==
  [kind |-> "empty", data |-> <<>>, src |-> <<>>, status |-> 200, hdrs |-> {},
   items |-> {}, clen |-> 0, exist |-> TRUE,
   etag |-> Tag(FALSE, 0, 0), last_modified |-> 0, content_range |-> NoContentRange]

\* A panic unwinds through Server::handle and Server::call: the task of the
\* connection ends and no response is written.
NoResponse == [DefaultResponse EXCEPT !.status = 0, !.kind = "panic"]

status_forbid(r) == [r EXCEPT !.status = 403, !.kind = "Forbidden"]
status_not_found(r) == [r EXCEPT !.status = 404, !.kind = "Not Found"]
status_no_content(r) == [r EXCEPT !.status = 204]

set_webdav_headers(r) == [r EXCEPT !.hdrs = @ \cup {"Allow", "DAV"}]

res_multistatus(r, items) ==
  [r EXCEPT !.status = 207, !.hdrs = @ \cup {"content-type"},
            !.kind = "multistatus", !.items = items]

\* The outcome of a handler: Ok(()) or Err, the response as it stands, the
\* filesystem it leaves and the calls it made that can change the filesystem.
Done(r, f, calls) == [fs |-> f, res |-> r, ev |-> calls, ok |-> TRUE]
Failed(r, f, calls) == [fs |-> f, res |-> r, ev |-> calls, ok |-> FALSE]
Panicked(f, calls) == [fs |-> f, res |-> NoResponse, ev |-> calls, ok |-> TRUE]

MutatingCalls ==
  {"create_dir_all", "File::create", "io::copy", "remove_dir_all", "remove_file",
   "fs::copy", "fs::rename"}

-----------------------------------------------------------------------------
(* Access control *)

ReadOnlyMethods == {"GET", "HEAD", "OPTIONS", "PROPFIND"}

\* The rules whose path is a prefix of the requested path.
MatchingRules(rules, segs) == {u \in rules : StartsWith(segs, u.path)}

LongestRule(rules, segs) ==
  CHOOSE u \in MatchingRules(rules, segs) :
    \A v \in MatchingRules(rules, segs) : Len(v.path) <= Len(u.path)

\* AccessControl::guard.
guard(rules, segs, method, cred) ==
  IF MatchingRules(rules, segs) = {} THEN "Pass"
  ELSE IF LongestRule(rules, segs).anon /\ method \in ReadOnlyMethods THEN "ReadOnly"
  ELSE IF cred = "valid" THEN "Pass"
  ELSE "Reject"

\* auth_reject answering 403 without a challenge.
auth_reject_Forbid(r) == status_forbid(set_webdav_headers(r))

auth_reject(r) ==
  [set_webdav_headers(r) EXCEPT !.hdrs = @ \cup {"Connection", "WWW-Authenticate"},
                                !.status = 401]

-----------------------------------------------------------------------------
(* Path resolution *)

\* Percent-decoding of the text between two slashes of a URI path: the
\* components it stands for ("%2F" decodes to a separator).
DecodeSeg(s) ==
  CASE s = "%78" -> <<"x">>
    [] s = "a%20b" -> <<"a b">>
    [] s = "x%2Fa%20b" -> <<"x", "a b">>
    [] OTHER -> <<s>>

\* encode_uri on one component: an unreserved name stays as it is.
EncodeSeg(c) == IF c = "a b" THEN "a%20b" ELSE c

encode_uri(comps) == [i \in 1..Len(comps) |-> EncodeSeg(comps[i])]

RECURSIVE DecodeAll(_)
DecodeAll(segs) ==
  IF segs = <<>> THEN <<>> ELSE DecodeSeg(Head(segs)) \o DecodeAll(Tail(segs))

\* decode_uri: None on an invalid percent escape.
decode_uri(segs) ==
  IF \E i \in 1..Len(segs) : segs[i] = BadEscape
  THEN [some |-> FALSE, segs |-> <<>>]
  ELSE [some |-> TRUE, segs |-> DecodeAll(segs)]

\* strip_path_prefix taking the prefix off as often as it is there.
RECURSIVE strip_path_prefix_Repeated(_, _)
strip_path_prefix_Repeated(a, comps) ==
  IF a.path_prefix = <<>> THEN [some |-> TRUE, segs |-> comps]
  ELSE IF ~StartsWith(comps, a.path_prefix) THEN [some |-> FALSE, segs |-> <<>>]
  ELSE IF StartsWith(StripPrefix(comps, a.path_prefix), a.path_prefix)
    THEN strip_path_prefix_Repeated(a, StripPrefix(comps, a.path_prefix))
  ELSE [some |-> TRUE, segs |-> StripPrefix(comps, a.path_prefix)]

\* Path::strip_prefix with --path-prefix, component by component.
strip_path_prefix(a, comps) ==
  IF a.path_prefix = <<>> THEN [some |-> TRUE, segs |-> comps]
  ELSE IF StartsWith(comps, a.path_prefix)
    THEN [some |-> TRUE, segs |-> StripPrefix(comps, a.path_prefix)]
  ELSE [some |-> FALSE, segs |-> <<>>]

extract_path(a, segs) ==
  With(decode_uri(segs), LAMBDA d :
    IF ~d.some THEN [some |-> FALSE, path |-> <<>>]
    ELSE With(strip_path_prefix(a, d.segs), LAMBDA stripped :
      IF ~stripped.some THEN [some |-> FALSE, path |-> <<>>]
      ELSE [some |-> TRUE, path |-> Join(Root, stripped.segs)]))

extract_dest(a, r) ==
  IF r.dest.some THEN extract_path(a, r.dest.segs)
  ELSE [some |-> FALSE, path |-> <<>>]

is_root_contained(f, path) ==
  With(Canonicalize(f, path), LAMBDA c : c.ok /\ StartsWith(c.p, Root))

\* Path::extension of the last component.
HasExtension(path) == path # <<>> /\ Last(path) \in {INDEX_NAME, FAVICON}

ensure_path_parent(f, path) ==
  IF SymlinkMetadata(f, Parent(path)).ok THEN [fs |-> f, ev |-> <<>>, ok |-> TRUE]
  ELSE With(CreateDirAll(f, Parent(path)), LAMBDA made :
         [fs |-> made.fs, ev |-> <<"create_dir_all">>, ok |-> made.ok])

-----------------------------------------------------------------------------
(* Directory entries *)

PathType(linked, isdir) ==
  IF linked /\ isdir THEN "SymlinkDir"
  ELSE IF isdir THEN "Dir"
  ELSE IF linked THEN "SymlinkFile"
  ELSE "File"

\* Server::to_pathitem: Err, Ok(None) or Ok(Some(item)).
to_pathitem(a, f, path, base) ==
  With(Metadata(f, path), LAMBDA meta : With(SymlinkMetadata(f, path), LAMBDA meta2 :
    IF ~meta.ok \/ ~meta2.ok THEN [ok |-> FALSE, some |-> FALSE, item |-> <<>>]
    ELSE IF ~a.allow_symlink /\ meta2.kind = "link" /\ ~is_root_contained(f, path)
      THEN [ok |-> TRUE, some |-> FALSE, item |-> <<>>]
    ELSE [ok |-> TRUE, some |-> TRUE,
          item |-> [size |-> IF meta.kind = "dir" THEN 0 ELSE meta.len,
                    path_type |-> PathType(meta2.kind = "link", meta.kind = "dir"),
                    name |-> StripPrefix(path, base)]]))

item_is_dir(item) == item.path_type \in {"Dir", "SymlinkDir"}

\* The names fs::read_dir yields for the directory at physical path p.
ReadDir(f, p) == {Last(q) : q \in {c \in DOMAIN f : c # <<>> /\ Parent(c) = p}}

\* Server::list_dir: the entries to_pathitem gives an item for.
\* The items among the outcomes of to_pathitem.
Items(outcomes) == {o.item : o \in {x \in outcomes : x.some}}

list_dir(a, f, entry_path, base) ==
  With(Metadata(f, entry_path), LAMBDA d :
    IF ~d.ok \/ d.kind # "dir" \/ Locked(f, d.p) THEN [ok |-> FALSE, items |-> {}]
    ELSE [ok |-> TRUE,
          items |-> Items({to_pathitem(a, f, Append(entry_path, n), base) :
                             n \in ReadDir(f, d.p)})])

\* get_file_name: Path::file_name, which a path ending in ".." lacks.
HasFileName(path) == path # <<>> /\ Last(path) # DotDot

-----------------------------------------------------------------------------
(* The handlers *)

FileHeaders ==
  {"last-modified", "etag", "content-type", "content-disposition", "accept-ranges",
   "content-length"}

\* A u64 is kept as its residue modulo 2^64, written by the representative of
\* least magnitude: -1 stands for 2^64 - 1.  ULess is the order of u64.
ULess(x, y) == IF (x < 0) = (y < 0) THEN x < y ELSE y < 0
UMin(x, y) == IF ULess(y, x) THEN y ELSE x
\* x - y and x + 1 on u64: the wrapped value and whether the operation
\* overflows.
USub(x, y) == [v |-> x - y, overflow |-> ULess(x, y)]
UInc(x) == [v |-> x + 1, overflow |-> x = -1]

MsPerSec == 1000

\* extract_cache_headers with the timestamp of the tag in whole seconds.
extract_cache_headers_Seconds(meta) ==
  [etag |-> Tag(FALSE, meta.modified \div MsPerSec, meta.len),
   last_modified |-> meta.modified \div MsPerSec]

\* extract_cache_headers: the ETag "<mtime in ms>-<size>" and Last-Modified,
\* an HTTP date, which has whole seconds.
extract_cache_headers(meta) ==
  [etag |-> Tag(FALSE, meta.modified, meta.len),
   last_modified |-> meta.modified \div MsPerSec]

\* EntityTag::weak_eq and EntityTag::strong_eq.
weak_eq(t, u) == t.v = u.v
strong_eq(t, u) == ~t.weak /\ ~u.weak /\ t.v = u.v

\* IfNoneMatch::precondition_passes, IfModifiedSince::is_modified and
\* IfRange::is_modified.
precondition_passes(inm, etag) ==
  inm.kind = "tags" /\ \A t \in inm.tags : ~weak_eq(t, etag)
is_modified(since, last_modified) == since.secs < last_modified
if_range_is_modified(ir, etag, last_modified) ==
  IF ir.kind = "date" THEN ir.secs < last_modified ELSE ~strong_eq(etag, ir.tag)

\* The test of the conditional headers in handle_send_file.
Cached(rq, ch) ==
  IF rq.if_none_match.kind # "absent"
    THEN ~precondition_passes(rq.if_none_match, ch.etag)
  ELSE IF rq.if_modified_since.kind # "absent"
    THEN ~is_modified(rq.if_modified_since, ch.last_modified)
  ELSE FALSE

\* headers.typed_get::<Range>(): a Range header that starts with "bytes=".
HasRange(rq) == rq.range.kind \in {"suffix", "open", "closed"}

UseRange(rq, ch) ==
  HasRange(rq) /\ (rq.if_range.kind = "absent"
                   \/ ~if_range_is_modified(rq.if_range, ch.etag, ch.last_modified))

\* parse_range dropping the end of a closed range.
parse_range_NoEnd(rq) ==
  [some |-> rq.range.kind \in {"open", "closed"}, start |-> rq.range.start,
   end |-> 0, has_end |-> FALSE]

\* parse_range: "bytes=N-" and "bytes=N-M"; a suffix has no start to parse.
parse_range(rq) ==
  [some |-> rq.range.kind \in {"open", "closed"}, start |-> rq.range.start,
   end |-> rq.range.end, has_end |-> rq.range.kind = "closed"]

\* Streamer::into_stream and Streamer::into_stream_sized on a file that has
\* been sought to start: the rest of the file, or its next n bytes.
into_stream(data, start) ==
  IF start < Len(data) THEN SubSeq(data, start + 1, Len(data)) ELSE <<>>
into_stream_sized(data, start, n) ==
  IF start >= Len(data) \/ n = 0 THEN <<>>
  ELSE SubSeq(data, start + 1,
              IF n < 0 \/ start + n > Len(data) THEN Len(data) ELSE start + n)

\* The part of handle_send_file that answers a parsed Range.
send_range(a, f, meta, range, head_only, r) ==
  With(meta.len, LAMBDA size :
    IF ~(IF range.has_end THEN range.end >= range.start ELSE range.start < size)
    THEN Done([r EXCEPT !.status = 416, !.hdrs = @ \cup {"content-range"},
                        !.content_range = [kind |-> "unsatisfied", size |-> size,
                                           start |-> 0, end |-> 0]], f, <<>>)
    ELSE With(USub(size, 1), LAMBDA last :
      IF last.overflow /\ a.overflow_checks THEN Panicked(f, <<>>)
      ELSE With(UMin(IF range.has_end THEN range.end ELSE last.v, last.v), LAMBDA end :
        With(USub(end, range.start), LAMBDA diff : With(UInc(diff.v), LAMBDA part_size :
          IF (diff.overflow \/ part_size.overflow) /\ a.overflow_checks
          THEN Panicked(f, <<>>)
          ELSE With([r EXCEPT !.status = 206,
                              !.hdrs = @ \cup {"content-range", "content-length"},
                              !.content_range = [kind |-> "range", size |-> size,
                                                 start |-> range.start, end |-> end],
                              !.clen = part_size.v], LAMBDA sent :
                 IF head_only THEN Done(sent, f, <<>>)
                 ELSE Done([sent EXCEPT
                              !.kind = "file",
                              !.data = into_stream_sized(f[meta.p].data, range.start,
                                                         part_size.v)], f, <<>>)))))))

handle_send_file(a, f, path, rq, head_only, r) ==
  With(Metadata(f, path), LAMBDA meta :
    IF ~meta.ok THEN Failed(r, f, <<>>)
    ELSE With(extract_cache_headers(meta), LAMBDA ch :
      IF Cached(rq, ch) THEN Done([r EXCEPT !.status = 304], f, <<>>)
      ELSE IF ~HasFileName(path) THEN Failed(r, f, <<>>)
      ELSE With([r EXCEPT !.hdrs = @ \cup (FileHeaders \ {"content-length"}),
                          !.etag = ch.etag, !.last_modified = ch.last_modified,
                          !.src = meta.p], LAMBDA hdr :
        With(parse_range(rq), LAMBDA range :
          IF UseRange(rq, ch) /\ range.some
          THEN send_range(a, f, meta, range, head_only, hdr)
          ELSE With([hdr EXCEPT !.hdrs = @ \cup {"content-length"}, !.clen = meta.len],
                    LAMBDA sent :
                 IF head_only THEN Done(sent, f, <<>>)
                 ELSE IF meta.kind = "dir"
                   THEN Done([sent EXCEPT !.kind = "broken"], f, <<>>)
                 ELSE Done([sent EXCEPT !.kind = "file",
                                        !.data = into_stream(f[meta.p].data, 0)],
                           f, <<>>))))))

send_index(f, path, paths, exist, head_only, r) ==
  LET sent == [r EXCEPT !.hdrs = @ \cup {"content-type", "content-length"},
                        !.exist = exist]
  IN  IF ~StartsWith(path, Root) THEN Failed(r, f, <<>>)
      ELSE IF head_only THEN Done(sent, f, <<>>)
      ELSE Done([sent EXCEPT !.kind = "index", !.items = paths], f, <<>>)

handle_ls_dir(a, f, path, exist, head_only, r) ==
  With(list_dir(a, f, path, path), LAMBDA listed :
    IF exist /\ ~listed.ok THEN Done(status_forbid(r), f, <<>>)
    ELSE send_index(f, path, IF exist THEN listed.items ELSE {}, exist, head_only, r))

\* The letters of the names of the tree (all names are lower case).
Letters(name) ==
  CASE name = INDEX_NAME -> {"i", "n", "d", "e", "x", ".", "h", "t", "m", "l"}
    [] name = FAVICON -> {"f", "a", "v", "i", "c", "o", "n", "."}
    [] name = "lnk" -> {"l", "n", "k"}
    [] name = "out" -> {"o", "u", "t"}
    [] name = "srv" -> {"s", "r", "v"}
    [] OTHER -> {name}

\* str::contains for a search term of at most one letter.
NameContains(name, term) == term = <<>> \/ term[1] \in Letters(name)

\* The entries below the directory whose names contain the search term.
handle_query_dir(a, f, path, query, head_only, r) ==
  With(Metadata(f, path).p, LAMBDA top :
    send_index(f, path,
               Items({to_pathitem(a, f, Join(path, StripPrefix(q, top)), path) :
                        q \in {x \in WalkDir(f, top) :
                                 x # top /\ NameContains(Last(x), query)}}),
               TRUE, head_only, r))

\* The archive's entries are the regular files below the directory.
ZipEntries(f, top) ==
  {[data |-> f[q].data, name |-> StripPrefix(q, top)] :
     q \in {x \in WalkDir(f, top) : f[x].kind = "file"}}

handle_zip_dir(f, path, head_only, r) ==
  With([r EXCEPT !.hdrs = @ \cup {"content-disposition", "content-type"}], LAMBDA sent :
    IF ~HasFileName(path) THEN Failed(r, f, <<>>)
    ELSE IF head_only THEN Done(sent, f, <<>>)
    ELSE Done([sent EXCEPT !.kind = "zip",
                           !.items = ZipEntries(f, Metadata(f, path).p)], f, <<>>))

handle_render_index(a, f, path, rq, head_only, r) ==
  IF Metadata(f, Append(path, INDEX_NAME)).kind = "file"
    THEN handle_send_file(a, f, Append(path, INDEX_NAME), rq, head_only, r)
  ELSE IF a.render_try_index THEN handle_ls_dir(a, f, path, TRUE, head_only, r)
  ELSE Done(status_not_found(r), f, <<>>)

\* handle_render_spa sending the index for any missing path.
handle_render_spa_AnyPath(a, f, path, rq, head_only, r) ==
  handle_send_file(a, f, Append(Root, INDEX_NAME), rq, head_only, r)

handle_render_spa(a, f, path, rq, head_only, r) ==
  IF ~HasExtension(path)
    THEN handle_send_file(a, f, Append(Root, INDEX_NAME), rq, head_only, r)
  ELSE Done(status_not_found(r), f, <<>>)

handle_send_favicon(a, f, rq, r) ==
  IF Metadata(f, Append(Root, FAVICON)).kind = "file"
    THEN handle_send_file(a, f, Append(Root, FAVICON), rq, FALSE, r)
  ELSE Done([r EXCEPT !.kind = "favicon", !.hdrs = @ \cup {"content-type"}], f, <<>>)

handle_upload(f, path, body, r) ==
  With(ensure_path_parent(f, path), LAMBDA par :
    IF ~par.ok THEN Failed(r, par.fs, par.ev)
    ELSE With(FileCreate(par.fs, path), LAMBDA file :
           IF ~file.ok
           THEN Done(status_forbid(r), par.fs, par.ev \o <<"File::create">>)
           ELSE Done([r EXCEPT !.status = 201], Put(file.fs, file.p, FileNode(body)),
                     par.ev \o <<"File::create", "io::copy">>)))

\* handle_delete unlinking whatever it is given.
handle_delete_Unlink(f, path, is_dir, r) ==
  With(RemoveFile(f, path), LAMBDA gone :
    IF ~gone.ok THEN Failed(r, gone.fs, <<"remove_file">>)
    ELSE Done(status_no_content(r), gone.fs, <<"remove_file">>))

handle_delete(f, path, is_dir, r) ==
  With(IF is_dir THEN RemoveDirAll(f, path) ELSE RemoveFile(f, path), LAMBDA gone :
    With(IF is_dir THEN <<"remove_dir_all">> ELSE <<"remove_file">>, LAMBDA made :
      IF ~gone.ok THEN Failed(r, gone.fs, made)
      ELSE Done(status_no_content(r), gone.fs, made)))

\* str::parse::<u32> on the text of a Depth header.
parse_depth(text) ==
  CASE text = "0" -> [n |-> 0, some |-> TRUE]
    [] text = "1" -> [n |-> 1, some |-> TRUE]
    [] text = "2" -> [n |-> 2, some |-> TRUE]
    [] OTHER -> [n |-> 0, some |-> FALSE]

\* handle_propfind_dir listing the children whatever the Depth.
handle_propfind_dir_DepthIgnored(a, f, path, depth, r) ==
  IF depth # "absent" /\ ~parse_depth(depth).some
    THEN Done([r EXCEPT !.status = 400], f, <<>>)
  ELSE With(to_pathitem(a, f, path, Root), LAMBDA self :
         IF ~self.ok \/ ~self.some THEN Failed(r, f, <<>>)
         ELSE With(list_dir(a, f, path, Root), LAMBDA child :
                IF ~child.ok THEN Done(status_forbid(r), f, <<>>)
                ELSE Done(res_multistatus(r, {self.item} \cup child.items), f, <<>>)))

handle_propfind_dir(a, f, path, depth, r) ==
  IF depth # "absent" /\ ~parse_depth(depth).some
    THEN Done([r EXCEPT !.status = 400], f, <<>>)
  ELSE With(to_pathitem(a, f, path, Root), LAMBDA self :
         IF ~self.ok \/ ~self.some THEN Failed(r, f, <<>>)
         ELSE IF depth # "absent" /\ parse_depth(depth).n = 0
           THEN Done(res_multistatus(r, {self.item}), f, <<>>)
         ELSE With(list_dir(a, f, path, Root), LAMBDA child :
                IF ~child.ok THEN Done(status_forbid(r), f, <<>>)
                ELSE Done(res_multistatus(r, {self.item} \cup child.items), f, <<>>)))

handle_propfind_file(a, f, path, r) ==
  With(to_pathitem(a, f, path, Root), LAMBDA self :
    IF ~self.ok THEN Failed(r, f, <<>>)
    ELSE IF self.some THEN Done(res_multistatus(r, {self.item}), f, <<>>)
    ELSE Done(status_not_found(r), f, <<>>))

handle_mkcol(f, path, r) ==
  With(CreateDirAll(f, path), LAMBDA made :
    IF ~made.ok THEN Failed(r, made.fs, <<"create_dir_all">>)
    ELSE Done([r EXCEPT !.status = 201], made.fs, <<"create_dir_all">>))

handle_copy(a, f, path, rq, r) ==
  With(extract_dest(a, rq), LAMBDA dest :
    IF ~dest.some THEN Done([r EXCEPT !.status = 400], f, <<>>)
    ELSE With(SymlinkMetadata(f, path), LAMBDA meta :
      IF ~meta.ok THEN Failed(r, f, <<>>)
      ELSE IF meta.kind = "dir" THEN Done(status_forbid(r), f, <<>>)
      ELSE With(ensure_path_parent(f, dest.path), LAMBDA par :
        IF ~par.ok THEN Failed(r, par.fs, par.ev)
        ELSE With(FsCopy(par.fs, path, dest.path), LAMBDA copied :
          IF ~copied.ok THEN Failed(r, copied.fs, par.ev \o <<"fs::copy">>)
          ELSE Done(status_no_content(r), copied.fs, par.ev \o <<"fs::copy">>)))))

handle_move(a, f, path, rq, r) ==
  With(extract_dest(a, rq), LAMBDA dest :
    IF ~dest.some THEN Done([r EXCEPT !.status = 400], f, <<>>)
    ELSE With(ensure_path_parent(f, dest.path), LAMBDA par :
      IF ~par.ok THEN Failed(r, par.fs, par.ev)
      ELSE With(FsRename(par.fs, path, dest.path), LAMBDA moved :
        IF ~moved.ok THEN Failed(r, moved.fs, par.ev \o <<"fs::rename">>)
        ELSE Done(status_no_content(r), moved.fs, par.ev \o <<"fs::rename">>))))

handle_lock(f, r) ==
  Done([r EXCEPT !.hdrs = @ \cup {"content-type", "lock-token"}, !.kind = "lock"], f, <<>>)

handle_proppatch(f, r) ==
  Done([res_multistatus(r, {}) EXCEPT !.kind = "proppatch"], f, <<>>)

-----------------------------------------------------------------------------
(* The dispatcher *)

\* The query string of the request URI, as a sequence of tokens: the empty
\* query, "zip", "q=" followed by the search term, or anything else.
NoQuery == <<>>
Zip == <<"zip">>
Search(s) == <<"q=", s>>
HasPrefixQ(q) == q # <<>> /\ q[1] = "q="

\* The metadata probe of Server::handle.
Probe(f, path, slash) ==
  LET meta == Stat(f, path, TRUE, slash)
  IN  [size |-> meta.len, is_dir |-> meta.ok /\ meta.kind = "dir",
       is_miss |-> ~meta.ok, is_file |-> meta.ok /\ meta.kind = "file"]

\* The GET arm with the render flags consulted before the zip query.
handle_get_IndexFirst(a, f, rq, path, pr, r) ==
  LET head_only == rq.method = "HEAD"
  IN  IF pr.is_dir
        THEN IF a.render_index \/ a.render_spa \/ a.render_try_index
               THEN handle_render_index(a, f, path, rq, head_only, r)
             ELSE IF rq.query = Zip THEN handle_zip_dir(f, path, head_only, r)
             ELSE IF HasPrefixQ(rq.query)
               THEN handle_query_dir(a, f, path, Tail(rq.query), head_only, r)
             ELSE handle_ls_dir(a, f, path, TRUE, head_only, r)
      ELSE IF pr.is_file THEN handle_send_file(a, f, path, rq, head_only, r)
      ELSE IF a.render_spa THEN handle_render_spa(a, f, path, rq, head_only, r)
      ELSE IF a.allow_upload /\ (rq.slash \/ rq.segs = <<>>)
        THEN handle_ls_dir(a, f, path, FALSE, head_only, r)
      ELSE Done(status_not_found(r), f, <<>>)

handle_get(a, f, rq, path, pr, r) ==
  LET head_only == rq.method = "HEAD"
  IN  IF pr.is_dir
        THEN IF a.render_try_index /\ rq.query = Zip
               THEN handle_zip_dir(f, path, head_only, r)
             ELSE IF a.render_index \/ a.render_spa \/ a.render_try_index
               THEN handle_render_index(a, f, path, rq, head_only, r)
             ELSE IF rq.query = Zip THEN handle_zip_dir(f, path, head_only, r)
             ELSE IF HasPrefixQ(rq.query)
               THEN handle_query_dir(a, f, path, Tail(rq.query), head_only, r)
             ELSE handle_ls_dir(a, f, path, TRUE, head_only, r)
      ELSE IF pr.is_file THEN handle_send_file(a, f, path, rq, head_only, r)
      ELSE IF a.render_spa THEN handle_render_spa(a, f, path, rq, head_only, r)
      ELSE IF a.allow_upload /\ (rq.slash \/ rq.segs = <<>>)
        THEN handle_ls_dir(a, f, path, FALSE, head_only, r)
      ELSE Done(status_not_found(r), f, <<>>)

\* The PUT arm without the protection of non-empty files.
handle_put_NoSizeCheck(a, f, rq, path, pr, r) ==
  IF ~a.allow_upload THEN Done(status_forbid(r), f, <<>>)
  ELSE handle_upload(f, path, rq.body, r)

handle_put(a, f, rq, path, pr, r) ==
  IF ~a.allow_upload \/ (~a.allow_delete /\ pr.is_file /\ pr.size > 0)
  THEN Done(status_forbid(r), f, <<>>)
  ELSE handle_upload(f, path, rq.body, r)

handle_del(a, f, rq, path, pr, r) ==
  IF ~a.allow_delete THEN Done(status_forbid(r), f, <<>>)
  ELSE IF ~pr.is_miss THEN handle_delete(f, path, pr.is_dir, r)
  ELSE Done(status_not_found(r), f, <<>>)

handle_dav(a, f, rq, path, pr, r) ==
  CASE rq.method = "PROPFIND" ->
         IF pr.is_dir THEN handle_propfind_dir(a, f, path, rq.depth, r)
         ELSE IF pr.is_file THEN handle_propfind_file(a, f, path, r)
         ELSE Done(status_not_found(r), f, <<>>)
    [] rq.method = "PROPPATCH" ->
         IF pr.is_file THEN handle_proppatch(f, r)
         ELSE Done(status_not_found(r), f, <<>>)
    [] rq.method = "MKCOL" ->
         IF ~a.allow_upload \/ ~pr.is_miss THEN Done(status_forbid(r), f, <<>>)
         ELSE handle_mkcol(f, path, r)
    [] rq.method = "COPY" ->
         IF ~a.allow_upload THEN Done(status_forbid(r), f, <<>>)
         ELSE IF pr.is_miss THEN Done(status_not_found(r), f, <<>>)
         ELSE handle_copy(a, f, path, rq, r)
    [] rq.method = "MOVE" ->
         IF ~a.allow_upload \/ ~a.allow_delete THEN Done(status_forbid(r), f, <<>>)
         ELSE IF pr.is_miss THEN Done(status_not_found(r), f, <<>>)
         ELSE handle_move(a, f, path, rq, r)
    [] rq.method = "LOCK" ->
         IF pr.is_file THEN handle_lock(f, r)
         ELSE Done(status_not_found(r), f, <<>>)
    [] rq.method = "UNLOCK" ->
         IF pr.is_miss THEN Done(status_not_found(r), f, <<>>)
         ELSE Done(r, f, <<>>)
    [] OTHER -> Done([r EXCEPT !.status = 405], f, <<>>)

\* The match on the method, once the path is resolved and probed.
dispatch(a, f, rq, path, pr, r) ==
  IF rq.method \in {"GET", "HEAD"} THEN handle_get(a, f, rq, path, pr, r)
  ELSE IF rq.method = "OPTIONS" THEN Done(set_webdav_headers(r), f, <<>>)
  ELSE IF rq.method = "PUT" THEN handle_put(a, f, rq, path, pr, r)
  ELSE IF rq.method = "DELETE" THEN handle_del(a, f, rq, path, pr, r)
  ELSE handle_dav(a, f, rq, path, pr, r)

\* What follows the guard in Server::handle, without the test for a root that
\* is a file.
handle_guarded_NoFileRoot(a, f, rq, r) ==
  With(extract_path(a, rq.segs), LAMBDA ep :
    IF ~ep.some THEN Done(status_forbid(r), f, <<>>)
    ELSE With(Probe(f, ep.path, rq.slash), LAMBDA pr :
      IF ~a.allow_symlink /\ ~pr.is_miss /\ ~is_root_contained(f, ep.path)
      THEN Done(status_not_found(r), f, <<>>)
      ELSE dispatch(a, f, rq, ep.path, pr, r)))

\* What follows the guard in Server::handle.
handle_guarded(a, f, rq, r) ==
  IF a.path_is_file THEN handle_send_file(a, f, Root, rq, rq.method = "HEAD", r)
  ELSE With(extract_path(a, rq.segs), LAMBDA ep :
    IF ~ep.some THEN Done(status_forbid(r), f, <<>>)
    ELSE With(Probe(f, ep.path, rq.slash), LAMBDA pr :
      IF ~a.allow_symlink /\ ~pr.is_miss /\ ~is_root_contained(f, ep.path)
      THEN Done(status_not_found(r), f, <<>>)
      ELSE dispatch(a, f, rq, ep.path, pr, r)))

GuardEvent(verdict) ==
  CASE verdict = "Pass" -> "guard:Pass"
    [] verdict = "ReadOnly" -> "guard:ReadOnly"
    [] OTHER -> "guard:Reject"

IsFaviconRequest(rq) == rq.segs = <<FAVICON>> /\ ~rq.slash /\ rq.method = "GET"

\* Server::handle with the guard consulted once the method has been carried out.
handle_GuardLast(a, f, rq) ==
  IF IsFaviconRequest(rq) THEN handle_send_favicon(a, f, rq, DefaultResponse)
  ELSE With(handle_guarded(a, f, rq, DefaultResponse), LAMBDA h :
    With(guard(a.auth, rq.segs, rq.method, rq.cred), LAMBDA verdict :
      IF verdict = "Reject"
      THEN Done(auth_reject(DefaultResponse), h.fs, h.ev \o <<"guard:Reject">>)
      ELSE [h EXCEPT !.ev = @ \o <<GuardEvent(verdict)>>]))

\* Server::handle.  ev lists the guard's verdict and, after it, the calls
\* made that can change the filesystem, in the order they are made.
handle(a, f, rq) ==
  IF IsFaviconRequest(rq) THEN handle_send_favicon(a, f, rq, DefaultResponse)
  ELSE With(guard(a.auth, rq.segs, rq.method, rq.cred), LAMBDA verdict :
    IF verdict = "Reject" THEN Done(auth_reject(DefaultResponse), f, <<"guard:Reject">>)
    ELSE [handle_guarded(a, f, rq, DefaultResponse)
            EXCEPT !.ev = <<GuardEvent(verdict)>> \o @])

\* A record handed to the process's logger: the level and the status in the
\* line.
LogLine(level, status) == [status |-> status, level |-> level]

\* Server::call: an Err of the handler becomes a bare 500.  log: what is
\* handed to the logger, info! for a response of the handler and error! for
\* an Err; a panic unwinds before either.
call(a, f, rq) ==
  With(handle(a, f, rq), LAMBDA h :
    IF h.res = NoResponse
      THEN [fs |-> h.fs, res |-> h.res, ev |-> h.ev, ok |-> h.ok, log |-> <<>>]
    ELSE IF h.ok
      THEN [fs |-> h.fs, res |-> h.res, ev |-> h.ev, ok |-> h.ok,
            log |-> <<LogLine("info", h.res.status)>>]
    ELSE [fs |-> h.fs, res |-> [DefaultResponse EXCEPT !.status = 500], ev |-> h.ev,
          ok |-> h.ok, log |-> <<LogLine("error", 500)>>])

-----------------------------------------------------------------------------
(* Configurations and inputs *)

\* The access-log template when --log-format is not given, as its tokens.
DEFAULT_LOG_FORMAT == <<"$remote_addr", " \"", "$request", "\" - ", "$status">>

\* The options of the command line (no --path-prefix, no --hidden and no
\* --log-format unless they are set afterwards), and one property of the
\* build: whether integer overflow is checked (a panic) or wraps, which the
\* profile of the build decides.
Flags(up, del, sym, idx, spa, try, rules) ==
  [path_prefix |-> <<>>, allow_symlink |-> sym, overflow_checks |-> FALSE,
   render_try_index |-> try, render_index |-> idx, render_spa |-> spa,
   allow_upload |-> up, allow_delete |-> del, path_is_file |-> FALSE,
   auth |-> rules, hidden |-> {}, log_http |-> DEFAULT_LOG_FORMAT]

\* -a "/@user:pass": everything needs credentials.
RulesRoot == {[path |-> <<>>, anon |-> FALSE]}
\* -a "/@user:pass@*" -a "/d@user:pass": anonymous reading, except below /d.
RulesSub == {[path |-> <<>>, anon |-> TRUE], [path |-> <<"d">>, anon |-> FALSE]}

ArgsSet ==
  {Flags(up, del, sym, FALSE, spa, FALSE, {}) :
     up \in BOOLEAN, del \in BOOLEAN, sym \in BOOLEAN, spa \in BOOLEAN}
  \cup {Flags(FALSE, FALSE, FALSE, TRUE, FALSE, FALSE, {}),
        Flags(FALSE, FALSE, FALSE, FALSE, FALSE, TRUE, {})}
  \cup {Flags(TRUE, TRUE, FALSE, FALSE, FALSE, FALSE, rules) : rules \in {RulesRoot, RulesSub}}

\* The request paths: the root, a non-empty file, an empty file, a directory,
\* missing names (one below a missing directory, two below a file, one
\* reached by ".."), a link that leaves the root and a file behind it, the
\* favicon, an invalid percent escape.
ReqPaths ==
  {<<>>, <<INDEX_NAME>>, <<"e">>, <<"d">>, <<"n">>, <<"n", "m">>, <<"lnk">>,
   <<"lnk", "s">>, <<DotDot, "n">>, <<INDEX_NAME, "n">>, <<INDEX_NAME, "n", "m">>,
   <<FAVICON>>, <<BadEscape>>}

\* Paths written with a trailing slash (GET and HEAD only).
SlashPaths == {<<INDEX_NAME>>, <<"d">>, <<"n">>}

DestHeaders ==
  {NoDest} \cup {Dest(p) : p \in {<<"n">>, <<"n", "m">>, <<INDEX_NAME>>, <<"d">>, <<DotDot, "n">>}}

Depths == {"absent", "0", "1", "2", "infinity"}

\* Without rules the guard never reads the Authorization header.
Creds == IF args.auth = {} THEN {"none"} ELSE {"none", "valid", "invalid"}

NoRequest == Request("NONE", <<>>, FALSE, NoQuery, "none", NoDest, "absent", <<>>)

Plain(m, p, c) == Request(m, p, FALSE, NoQuery, c, NoDest, "absent", <<>>)

-----------------------------------------------------------------------------
(* Tasks that run beside the request being handled *)

\* The tasks of concurrent PUT requests: where each one is in handle_upload
\* ("idle": not arrived; "admitted": past the test of the PUT arm; "open":
\* File::create done; "done": answered), its target, its payload, the file it
\* has open, the offset of its next write, its status.
Tasks == {1, 2}
NoUpload ==
  [pc |-> "idle", body |-> <<>>, status |-> 0, path |-> <<>>, file |-> <<>>, off |-> 0]
NoUploads == [t \in Tasks |-> NoUpload]

\* The ZIP producer task and its pipe: the producer ("none": not spawned),
\* the units it still has to write, the units in the pipe, the units the
\* response body has taken out, the reading end ("open"; "dropped": the
\* response body was dropped before its end; "eof": it was read to its end).
NoZip == [pc |-> "none", todo |-> <<>>, pipe |-> <<>>, got |-> <<>>, reader |-> "open"]

-----------------------------------------------------------------------------
(* The state machine: one action per method arm *)

Init ==
  /\ args \in ArgsSet
  /\ fs = InitFs
  /\ old = InitFs
  /\ req = NoRequest
  /\ res = DefaultResponse
  /\ ev = <<>>
  /\ pc = "idle"
  /\ nreq = 0
  /\ uploads = NoUploads
  /\ zip = NoZip

\* Server::call on one request, from its arrival to its response.
Serve(rq) ==
  /\ pc = "idle"
  /\ nreq < MaxReqs
  /\ pc' = "done"
  /\ req' = rq
  /\ \E h \in {call(args, fs, rq)} :
       /\ res' = h.res
       /\ fs' = h.fs
       /\ ev' = h.ev
  /\ old' = fs
  /\ nreq' = nreq + 1
  /\ UNCHANGED <<args, uploads, zip>>

Get ==
  \E m \in {"GET", "HEAD"}, c \in Creds :
    \/ \E p \in ReqPaths : Serve(Plain(m, p, c))
    \/ \E p \in SlashPaths : Serve([Plain(m, p, c) EXCEPT !.slash = TRUE])
    \/ \E q \in {Zip, Search("g")} : Serve([Plain(m, <<>>, c) EXCEPT !.query = q])

Options == \E p \in ReqPaths, c \in Creds : Serve(Plain("OPTIONS", p, c))

PutFile ==
  \E p \in ReqPaths, c \in Creds, b \in Bodies :
    Serve([Plain("PUT", p, c) EXCEPT !.body = b])

Delete == \E p \in ReqPaths, c \in Creds : Serve(Plain("DELETE", p, c))

Propfind ==
  \E p \in ReqPaths, c \in Creds, d \in Depths :
    Serve([Plain("PROPFIND", p, c) EXCEPT !.depth = d])

Proppatch == \E p \in ReqPaths, c \in Creds : Serve(Plain("PROPPATCH", p, c))

Mkcol == \E p \in ReqPaths, c \in Creds : Serve(Plain("MKCOL", p, c))

Copy ==
  \E p \in ReqPaths, c \in Creds, d \in DestHeaders :
    Serve([Plain("COPY", p, c) EXCEPT !.dest = d])

Move ==
  \E p \in ReqPaths, c \in Creds, d \in DestHeaders :
    Serve([Plain("MOVE", p, c) EXCEPT !.dest = d])

Lock == \E p \in ReqPaths, c \in Creds : Serve(Plain("LOCK", p, c))

Unlock == \E p \in ReqPaths, c \in Creds : Serve(Plain("UNLOCK", p, c))

Other == \E p \in ReqPaths, c \in Creds : Serve(Plain("PATCH", p, c))

\* The response is written back and the task that handled the request ends.
Respond ==
  /\ pc = "done"
  /\ pc' = "idle"
  /\ req' = NoRequest
  /\ res' = DefaultResponse
  /\ ev' = <<>>
  /\ old' = fs
  /\ UNCHANGED <<args, fs, nreq, uploads, zip>>

Next ==
  \/ Respond
  \/ Get
  \/ Options
  \/ PutFile
  \/ Delete
  \/ Propfind
  \/ Proppatch
  \/ Mkcol
  \/ Copy
  \/ Move
  \/ Lock
  \/ Unlock
  \/ Other

Spec == Init /\ [][Next]_vars

-----------------------------------------------------------------------------
(* GET and HEAD on directories under every combination of the render flags *)

RenderArgs ==
  {Flags(FALSE, FALSE, FALSE, idx, spa, try, {}) :
     idx \in BOOLEAN, spa \in BOOLEAN, try \in BOOLEAN}

\* The queries: none, ?zip, ?q=g, ?q=e, ?q= and a query without meaning.
Queries == {NoQuery, Zip, Search("g"), Search("e"), <<"q=">>, <<"x">>}

InitDir ==
  /\ args \in RenderArgs
  /\ fs = InitFs
  /\ old = InitFs
  /\ req = NoRequest
  /\ res = DefaultResponse
  /\ ev = <<>>
  /\ pc = "idle"
  /\ nreq = 0
  /\ uploads = NoUploads
  /\ zip = NoZip

GetDir ==
  \E m \in {"GET", "HEAD"}, p \in {<<>>, <<"d">>}, q \in Queries :
    Serve([Plain(m, p, "none") EXCEPT !.query = q])

NextDir == GetDir \/ Respond

SpecDir == InitDir /\ [][NextDir]_vars

-----------------------------------------------------------------------------
(* GET and HEAD on one file, with Range and conditional headers *)

MaxSize == 2

\* The file's content: byte i at offset i - 1.
Content(n) == [i \in 1..n |-> i]

\* Modification times: two within one second, one in the next.
MTimes == {MsPerSec, 2 * MsPerSec - 1, 2 * MsPerSec}

BuildArgs ==
  {[Flags(FALSE, FALSE, FALSE, FALSE, FALSE, FALSE, {}) EXCEPT !.overflow_checks = b] :
     b \in BOOLEAN}

FileTrees ==
  {Put(InitFs, <<"srv", INDEX_NAME>>, FileAt(Content(n), t)) :
     n \in 0..MaxSize, t \in MTimes}

Ranges ==
  {NoRange, OtherUnit, Suffix(1)}
  \cup {From(n) : n \in 0..MaxSize}
  \cup {FromTo(n, m) : n \in 0..MaxSize, m \in 0..(MaxSize + 1)}

KnownTags == {Tag(w, t, n) : w \in BOOLEAN, t \in MTimes, n \in 0..MaxSize}
Dates == {Date(s) : s \in 0..2}
IfRanges ==
  {NoIfRange} \cup {IfRangeTag(t) : t \in KnownTags} \cup {IfRangeDate(s) : s \in 0..2}
IfNoneMatches ==
  {NoMatch, AnyTag} \cup {Tags({t}) : t \in KnownTags}
  \cup {Tags({Tag(FALSE, MsPerSec, 0), t}) : t \in KnownTags}

InitFile ==
  /\ args \in BuildArgs
  /\ fs \in FileTrees
  /\ old = fs
  /\ req = NoRequest
  /\ res = DefaultResponse
  /\ ev = <<>>
  /\ pc = "idle"
  /\ nreq = 0
  /\ uploads = NoUploads
  /\ zip = NoZip

GetFile ==
  \E m \in {"GET", "HEAD"} :
    \/ \E r \in Ranges, ir \in IfRanges :
         Serve([Plain(m, <<INDEX_NAME>>, "none") EXCEPT !.range = r, !.if_range = ir])
    \/ \E inm \in IfNoneMatches, ims \in {NoDate} \cup Dates :
         Serve([Plain(m, <<INDEX_NAME>>, "none")
                  EXCEPT !.if_none_match = inm, !.if_modified_since = ims])
    \/ \E r \in {From(0), FromTo(0, 0)}, inm \in {NoMatch, AnyTag}, ims \in Dates :
         Serve([Plain(m, <<INDEX_NAME>>, "none")
                  EXCEPT !.range = r, !.if_none_match = inm, !.if_modified_since = ims])

NextFile == GetFile \/ Respond

SpecFile == InitFile /\ [][NextFile]_vars

-----------------------------------------------------------------------------
(* Requests to a server started with and without --path-prefix x *)

\* The tree with a directory named like the prefix and a name that needs
\* encoding, in the root and in that directory.
PrefixFs ==
  (<<"srv", "x">> :> DirNode) @@
  (<<"srv", "x", "a b">> :> FileNode(<<2>>)) @@
  (<<"srv", "a b">> :> FileNode(<<1>>)) @@
  InitFs

PrefixArgs ==
  {[Flags(up, FALSE, FALSE, FALSE, FALSE, FALSE, {}) EXCEPT !.path_prefix = x] :
     up \in BOOLEAN, x \in {<<>>, <<"x">>}}

\* URI paths: with the prefix once, twice, not at all, as part of a longer
\* name, written with escapes, and with an invalid escape.
PrefixPaths ==
  {<<>>, <<"x">>, <<"x", "x">>, <<INDEX_NAME>>, <<"x", INDEX_NAME>>,
   <<"x", "x", INDEX_NAME>>, <<"a%20b">>, <<"x", "a%20b">>, <<"x", "x", "a%20b">>,
   <<"%78", "a%20b">>, <<"x%2Fa%20b">>, <<"xy">>, <<"d">>, <<"x", "d">>,
   <<BadEscape>>, <<"x", BadEscape>>, <<FAVICON>>}

InitPrefix ==
  /\ args \in PrefixArgs
  /\ fs = PrefixFs
  /\ old = PrefixFs
  /\ req = NoRequest
  /\ res = DefaultResponse
  /\ ev = <<>>
  /\ pc = "idle"
  /\ nreq = 0
  /\ uploads = NoUploads
  /\ zip = NoZip

GetPrefixed ==
  \E m \in {"GET", "HEAD"}, p \in PrefixPaths : Serve(Plain(m, p, "none"))

PutPrefixed ==
  \E p \in PrefixPaths, b \in Bodies : Serve([Plain("PUT", p, "none") EXCEPT !.body = b])

NextPrefix == GetPrefixed \/ PutPrefixed \/ Respond

SpecPrefix == InitPrefix /\ [][NextPrefix]_vars

-----------------------------------------------------------------------------
(* Concurrent PUT requests: each task suspends at every filesystem call *)

\* Longest payload of a concurrent PUT, in chunks (a chunk is one byte here).
MaxChunks == 2

\* Task t sends t's: whose bytes a file holds can be read off it.
Payloads(t) == {[i \in 1..n |-> t] : n \in 1..MaxChunks}

PutTargets == {<<"n">>, <<"e">>, <<INDEX_NAME>>}

PutArgs == {Flags(TRUE, del, FALSE, FALSE, FALSE, FALSE, {}) : del \in BOOLEAN}

\* The test of the PUT arm on the probed metadata.
upload_refused(a, pr) == ~a.allow_upload \/ (~a.allow_delete /\ pr.is_file /\ pr.size > 0)

\* A write of one byte at an offset of a file: past the end it leaves a hole
\* of zeros.
WriteAt(data, off, b) ==
  IF off < Len(data) THEN [data EXCEPT ![off + 1] = b]
  ELSE data \o [i \in 1..(off - Len(data)) |-> 0] \o <<b>>

InitPut ==
  /\ args \in PutArgs
  /\ fs = InitFs
  /\ old = InitFs
  /\ req = NoRequest
  /\ res = DefaultResponse
  /\ ev = <<>>
  /\ pc = "idle"
  /\ nreq = 0
  /\ uploads = NoUploads
  /\ zip = NoZip

\* Server::handle up to the match on the method: the path is resolved and
\* probed, and the PUT arm lets the request through to handle_upload or
\* answers 403.
PutProbe(t) ==
  /\ uploads[t].pc = "idle"
  /\ \E p \in PutTargets, b \in Payloads(t) :
       \E pr \in {Probe(fs, extract_path(args, p).path, FALSE)} :
         uploads' = [uploads EXCEPT ![t] =
                       IF upload_refused(args, pr)
                       THEN [NoUpload EXCEPT !.pc = "done", !.path = p, !.body = b,
                                             !.status = 403]
                       ELSE [NoUpload EXCEPT !.pc = "admitted", !.path = p, !.body = b]]
  /\ UNCHANGED <<args, fs, old, req, res, ev, pc, nreq, zip>>

\* handle_upload: ensure_path_parent and File::create, which truncates.
PutOpen(t) ==
  /\ uploads[t].pc = "admitted"
  /\ \E par \in {ensure_path_parent(fs, Join(Root, uploads[t].path))} :
       IF ~par.ok
       THEN /\ fs' = par.fs
            /\ uploads' = [uploads EXCEPT ![t].pc = "done", ![t].status = 500]
       ELSE \E file \in {FileCreate(par.fs, Join(Root, uploads[t].path))} :
              /\ fs' = file.fs
              /\ uploads' = [uploads EXCEPT
                               ![t].pc = IF file.ok THEN "open" ELSE "done",
                               ![t].file = file.p,
                               ![t].status = IF file.ok THEN 0 ELSE 403]
  /\ UNCHANGED <<args, old, req, res, ev, pc, nreq, zip>>

\* io::copy: one chunk of the body is written at the offset of the task's
\* own file handle.
PutWrite(t) ==
  /\ uploads[t].pc = "open"
  /\ uploads[t].off < Len(uploads[t].body)
  /\ fs' = [fs EXCEPT ![uploads[t].file].data =
                        WriteAt(@, uploads[t].off, uploads[t].body[uploads[t].off + 1])]
  /\ uploads' = [uploads EXCEPT ![t].off = @ + 1]
  /\ UNCHANGED <<args, old, req, res, ev, pc, nreq, zip>>

\* The body is at its end: io::copy returns and the answer is 201.
PutFinish(t) ==
  /\ uploads[t].pc = "open"
  /\ uploads[t].off = Len(uploads[t].body)
  /\ uploads' = [uploads EXCEPT ![t].pc = "done", ![t].status = 201]
  /\ UNCHANGED <<args, fs, old, req, res, ev, pc, nreq, zip>>

NextPut ==
  \E t \in Tasks : PutProbe(t) \/ PutOpen(t) \/ PutWrite(t) \/ PutFinish(t)

SpecPut == InitPut /\ [][NextPut]_vars

-----------------------------------------------------------------------------
(* PUT to paths whose parent directories are missing *)

\* Paths two levels below something: below the root, below a directory, below
\* the root's parent, below a regular file, below a link that leaves the root.
DeepPaths ==
  {<<"n", "m">>, <<"d", "n", "m">>, <<DotDot, "n", "m">>, <<INDEX_NAME, "n", "m">>,
   <<"lnk", "n", "m">>}

InitDeep ==
  /\ args \in {Flags(TRUE, del, sym, FALSE, FALSE, FALSE, {}) :
                 del \in BOOLEAN, sym \in BOOLEAN}
  /\ fs = InitFs
  /\ old = InitFs
  /\ req = NoRequest
  /\ res = DefaultResponse
  /\ ev = <<>>
  /\ pc = "idle"
  /\ nreq = 0
  /\ uploads = NoUploads
  /\ zip = NoZip

PutDeep ==
  \E p \in DeepPaths, b \in Bodies : Serve([Plain("PUT", p, "none") EXCEPT !.body = b])

NextDeep == PutDeep \/ Respond

SpecDeep == InitDeep /\ [][NextDeep]_vars

-----------------------------------------------------------------------------
(* Requests on a tree with a directory that denies reading and writing *)

\* The starting tree with the root, or the directory d, made "--x".
LockedTrees ==
  {[InitFs EXCEPT ![d].mode = "--x"] : d \in {<<"srv">>, <<"srv", "d">>}}

PermPaths == {<<"d">>, <<"d", "g">>, <<"d", "n">>, <<"d", "n", "m">>, <<"e">>, <<"n">>}
PermDests == {Dest(<<"d", "n">>), Dest(<<"n">>), Dest(<<"d", "n", "m">>)}

InitPerm ==
  /\ args \in {Flags(TRUE, TRUE, sym, FALSE, FALSE, FALSE, {}) : sym \in BOOLEAN}
  /\ fs \in LockedTrees
  /\ old = fs
  /\ req = NoRequest
  /\ res = DefaultResponse
  /\ ev = <<>>
  /\ pc = "idle"
  /\ nreq = 0
  /\ uploads = NoUploads
  /\ zip = NoZip

PermGet ==
  \E p \in PermPaths \cup {<<>>}, q \in {NoQuery, Search("g")} :
    Serve([Plain("GET", p, "none") EXCEPT !.query = q])

PermPut == \E p \in PermPaths, b \in Bodies : Serve([Plain("PUT", p, "none") EXCEPT !.body = b])

PermDelete == \E p \in PermPaths : Serve(Plain("DELETE", p, "none"))

PermMkcol == \E p \in PermPaths : Serve(Plain("MKCOL", p, "none"))

PermCopy ==
  \E p \in PermPaths, d \in PermDests : Serve([Plain("COPY", p, "none") EXCEPT !.dest = d])

PermMove ==
  \E p \in PermPaths, d \in PermDests : Serve([Plain("MOVE", p, "none") EXCEPT !.dest = d])

PermPropfind ==
  \E p \in PermPaths \cup {<<>>}, d \in {"absent", "0"} :
    Serve([Plain("PROPFIND", p, "none") EXCEPT !.depth = d])

NextPerm ==
  \/ PermGet
  \/ PermPut
  \/ PermDelete
  \/ PermMkcol
  \/ PermCopy
  \/ PermMove
  \/ PermPropfind
  \/ Respond

SpecPerm == InitPerm /\ [][NextPerm]_vars

-----------------------------------------------------------------------------
(* Requests under an access-log template *)

\* --log-format with an empty value, the default, and "$status".
LogFormats == {<<>>, DEFAULT_LOG_FORMAT, <<"$status">>}

InitLog ==
  /\ args \in {[Flags(TRUE, FALSE, FALSE, FALSE, FALSE, FALSE, rules)
                   EXCEPT !.log_http = t] : t \in LogFormats, rules \in {{}, RulesRoot}}
  /\ fs = InitFs
  /\ old = InitFs
  /\ req = NoRequest
  /\ res = DefaultResponse
  /\ ev = <<>>
  /\ pc = "idle"
  /\ nreq = 0
  /\ uploads = NoUploads
  /\ zip = NoZip

LogGet ==
  \E p \in {<<>>, <<INDEX_NAME>>, <<"n">>}, c \in Creds : Serve(Plain("GET", p, c))

\* PUT, to a path below a regular file too: its parent cannot be made and the
\* handler returns Err.
LogPut ==
  \E p \in {<<"n">>, <<INDEX_NAME, "n", "m">>}, b \in Bodies, c \in Creds :
    Serve([Plain("PUT", p, c) EXCEPT !.body = b])

NextLog == LogGet \/ LogPut \/ Respond

SpecLog == InitLog /\ [][NextLog]_vars

-----------------------------------------------------------------------------
(* Listings under --hidden *)

\* --hidden e, --hidden g, --hidden d,index.html and no --hidden.
HiddenNames == {{"e"}, {"g"}, {"d", INDEX_NAME}, {}}

InitHidden ==
  /\ args \in {[Flags(FALSE, FALSE, FALSE, FALSE, FALSE, FALSE, {})
                   EXCEPT !.hidden = h] : h \in HiddenNames}
  /\ fs = InitFs
  /\ old = InitFs
  /\ req = NoRequest
  /\ res = DefaultResponse
  /\ ev = <<>>
  /\ pc = "idle"
  /\ nreq = 0
  /\ uploads = NoUploads
  /\ zip = NoZip

HiddenGet ==
  \E m \in {"GET", "HEAD"}, p \in {<<>>, <<"d">>}, q \in {NoQuery, Search("g"), Search("e")} :
    Serve([Plain(m, p, "none") EXCEPT !.query = q])

HiddenPropfind ==
  \E p \in {<<>>, <<"d">>}, d \in {"absent", "0", "1"} :
    Serve([Plain("PROPFIND", p, "none") EXCEPT !.depth = d])

NextHidden == HiddenGet \/ HiddenPropfind \/ Respond

SpecHidden == InitHidden /\ [][NextHidden]_vars

-----------------------------------------------------------------------------
(* The root is a single regular file *)

\* The tree when the server is started on the file /srv.
FileRootFs ==
  (<<>> :> DirNode) @@
  (<<"srv">> :> FileNode(<<1, 2>>)) @@
  (<<"out">> :> DirNode)

\* Args::parse finds the root to be a file; every capability either way.
FileRootArgs ==
  {[Flags(up, del, sym, idx, FALSE, FALSE, rules) EXCEPT !.path_is_file = TRUE] :
     up \in BOOLEAN, del \in BOOLEAN, sym \in BOOLEAN, idx \in BOOLEAN,
     rules \in {{}, RulesRoot}}

FileRootPaths == {<<>>, <<"n">>, <<"n", "m">>, <<DotDot, "out">>, <<FAVICON>>, <<BadEscape>>}

InitFileRoot ==
  /\ args \in FileRootArgs
  /\ fs = FileRootFs
  /\ old = FileRootFs
  /\ req = NoRequest
  /\ res = DefaultResponse
  /\ ev = <<>>
  /\ pc = "idle"
  /\ nreq = 0
  /\ uploads = NoUploads
  /\ zip = NoZip

\* A request of any method on any path, with a body and a Destination.
AnyRequest ==
  \E m \in {"GET", "HEAD", "OPTIONS", "PUT", "DELETE", "MKCOL", "COPY", "MOVE", "PROPFIND",
             "PROPPATCH", "LOCK", "UNLOCK", "PATCH"},
     p \in FileRootPaths, c \in Creds, q \in {NoQuery, Zip} :
    Serve([Plain(m, p, c) EXCEPT !.body = <<2>>, !.dest = Dest(<<"n">>), !.query = q])

NextFileRoot == AnyRequest \/ Respond

SpecFileRoot == InitFileRoot /\ [][NextFileRoot]_vars

-----------------------------------------------------------------------------
(* The ZIP producer task, the pipe and the response body that reads it *)

\* What the pipe holds at most, in units (a unit is one write of the
\* producer).
PipeCap == 2

\* The orders in which the walk can meet the entries.
Orders(entries) ==
  {o \in [1..Cardinality(entries) -> entries] :
     \A i, j \in DOMAIN o : o[i] = o[j] => i = j}

\* zip_dir's writes for one file: write_entry_stream writes the entry's
\* header, io::copy its bytes, close its end.
EntryUnits(e) ==
  <<[name |-> e.name, unit |-> "entry", byte |-> 0]>>
  \o [i \in DOMAIN e.data |-> [name |-> e.name, unit |-> "byte", byte |-> e.data[i]]]
  \o <<[name |-> e.name, unit |-> "close", byte |-> 0]>>

\* zip_dir's writes for the files in the order o, and the archive's trailer
\* that ZipFileWriter::close writes.
RECURSIVE ArchiveUnits(_)
ArchiveUnits(o) ==
  IF o = <<>> THEN <<[name |-> <<>>, unit |-> "trailer", byte |-> 0]>>
  ELSE EntryUnits(Head(o)) \o ArchiveUnits(Tail(o))

InitZip ==
  /\ args \in {Flags(FALSE, FALSE, sym, FALSE, FALSE, FALSE, {}) : sym \in BOOLEAN}
  /\ fs = InitFs
  /\ old = InitFs
  /\ req = NoRequest
  /\ res = DefaultResponse
  /\ ev = <<>>
  /\ pc = "idle"
  /\ nreq = 0
  /\ uploads = NoUploads
  /\ zip = NoZip

\* Server::call on GET ?zip of a directory: handle_zip_dir makes the pipe and
\* spawns the producer, which walks the directory in some order.
ZipGet ==
  /\ pc = "idle"
  /\ zip.pc = "none"
  /\ pc' = "done"
  /\ nreq' = nreq + 1
  /\ old' = fs
  /\ \E p \in {<<>>, <<"d">>} :
       \E rq \in {[Plain("GET", p, "none") EXCEPT !.query = Zip]} :
         \E h \in {call(args, fs, rq)} :
           /\ req' = rq
           /\ res' = h.res
           /\ fs' = h.fs
           /\ ev' = h.ev
           /\ IF h.res.kind = "zip"
              THEN \E o \in Orders(h.res.items) :
                     zip' = [NoZip EXCEPT !.pc = "running", !.todo = ArchiveUnits(o)]
              ELSE zip' = zip
  /\ UNCHANGED <<args, uploads>>

\* A write that waits while the pipe is full although its reading end is
\* gone.
ZipWrite_NoBrokenPipe ==
  /\ zip.pc = "running"
  /\ zip.todo # <<>>
  /\ Len(zip.pipe) < PipeCap
  /\ zip' = [zip EXCEPT !.pipe = Append(@, Head(zip.todo)), !.todo = Tail(@)]
  /\ UNCHANGED <<args, fs, old, req, res, ev, pc, nreq, uploads>>

\* One write of zip_dir into the pipe: it fails when the reading end is
\* gone, and zip_dir returns the error; it waits while the pipe is full.
ZipWrite ==
  /\ zip.pc = "running"
  /\ zip.todo # <<>>
  /\ IF zip.reader = "dropped"
     THEN zip' = [zip EXCEPT !.pc = "failed"]
     ELSE /\ Len(zip.pipe) < PipeCap
          /\ zip' = [zip EXCEPT !.pipe = Append(@, Head(zip.todo)), !.todo = Tail(@)]
  /\ UNCHANGED <<args, fs, old, req, res, ev, pc, nreq, uploads>>

\* zip_dir returns Ok: the task ends and drops the writing end.
ZipClose ==
  /\ zip.pc = "running"
  /\ zip.todo = <<>>
  /\ zip' = [zip EXCEPT !.pc = "done"]
  /\ UNCHANGED <<args, fs, old, req, res, ev, pc, nreq, uploads>>

\* The response body takes what the pipe holds; it is at its end when the
\* pipe is empty and the writing end is gone.
ZipRead ==
  /\ zip.reader = "open"
  /\ IF zip.pipe # <<>>
     THEN zip' = [zip EXCEPT !.got = Append(@, Head(zip.pipe)), !.pipe = Tail(@)]
     ELSE /\ zip.pc \in {"done", "failed"}
          /\ zip' = [zip EXCEPT !.reader = "eof"]
  /\ UNCHANGED <<args, fs, old, req, res, ev, pc, nreq, uploads>>

\* The client goes away: the response body, and the reading end in it, is
\* dropped.
ZipCancel ==
  /\ zip.pc # "none"
  /\ zip.reader = "open"
  /\ zip' = [zip EXCEPT !.reader = "dropped"]
  /\ UNCHANGED <<args, fs, old, req, res, ev, pc, nreq, uploads>>

NextZip == ZipGet \/ ZipWrite \/ ZipClose \/ ZipRead \/ ZipCancel

\* The runtime keeps running a spawned task that can run; nothing makes a
\* client read or go away.
SpecZip ==
  InitZip /\ [][NextZip]_vars /\ WF_vars(ZipWrite) /\ WF_vars(ZipClose)


-----------------------------------------------------------------------------
(* What the properties speak of *)

\* A request has been handled and its response is at hand; old is the
\* filesystem it found, fs the one it left.
Served == pc = "done"

\* The lexical path the request names and the one its Destination names.
Target == Join(Root, req.segs)
DestPath == Join(Root, req.dest.segs)

HasVerdict == ev # <<>> /\ ev[1] \in {"guard:Pass", "guard:ReadOnly", "guard:Reject"}
Rejected == ev # <<>> /\ ev[1] = "guard:Reject"

\* The request went through the guard, its path was decoded and passed the
\* containment check: the match on the method decided the response.
Dispatched ==
  /\ Served
  /\ HasVerdict /\ ~Rejected
  /\ decode_uri(req.segs).some
  /\ (args.allow_symlink \/ ~Metadata(old, Target).ok \/ is_root_contained(old, Target))

\* The state of the resource a request finds: Missing, Dir or File.
WasMissing == Probe(old, Target, req.slash).is_miss
WasDir == Probe(old, Target, req.slash).is_dir
WasFile == Probe(old, Target, req.slash).is_file
IsMissing == ~Metadata(fs, Target).ok

\* The part of the tree that lies outside the root.
Outside(f) == [p \in {q \in DOMAIN f : ~StartsWith(q, Root)} |-> f[p]]

Mutations(calls) == {i \in 1..Len(calls) : calls[i] \in MutatingCalls}

-----------------------------------------------------------------------------
(* C1 *)

\* C1: with follow-symlinks disabled no request reads, creates, overwrites,
\* renames or deletes anything whose resolved location is outside the root:
\* the tree outside the root is what it was, and a file that is sent lies
\* inside the root.
C1_NothingOutsideRoot ==
  (Served /\ ~args.allow_symlink) =>
    /\ Outside(fs) = Outside(old)
    /\ (res.kind = "file" => StartsWith(res.src, Root))

-----------------------------------------------------------------------------
(* C2 *)

\* C2: the guard's verdict is the first thing a request records, every call
\* that changes the filesystem comes after it, the filesystem changes only
\* through such a call, and a rejected request makes none and leaves the
\* filesystem as it found it.
C2_GuardBeforeMutation ==
  Served =>
    /\ (fs # old => Mutations(ev) # {})
    /\ (Mutations(ev) # {} => HasVerdict /\ 1 \notin Mutations(ev))
    /\ (Rejected => fs = old /\ Mutations(ev) = {})

\* A request the guard let pass has changed the filesystem.
C2_PassedAndMutated == Served /\ HasVerdict /\ ~Rejected /\ fs # old

\* A request with a body to write was rejected.
C2_RejectedUpload == Served /\ Rejected /\ req.method = "PUT" /\ req.body # <<>>

-----------------------------------------------------------------------------
(* C3 *)

\* The request carries no credentials and the longest rule over its path does
\* not grant anonymous access.
NeedsCredentials ==
  /\ req.cred = "none"
  /\ MatchingRules(args.auth, req.segs) # {}
  /\ ~LongestRule(args.auth, req.segs).anon

Challenged == res.status = 401 /\ "WWW-Authenticate" \in res.hdrs

\* C3 as stated: every request without credentials under a rule that does
\* not grant anonymous access is answered 401 with a WWW-Authenticate
\* challenge.
C3_AlwaysChallenged == (Served /\ NeedsCredentials) => Challenged

\* C3, amended: every such request other than GET /favicon.ico, which is
\* answered before the guard is consulted, is answered 401 with a
\* WWW-Authenticate challenge.
C3_ChallengedButFavicon ==
  (Served /\ NeedsCredentials /\ ~IsFaviconRequest(req)) => Challenged

\* A request for a file below a rule without anonymous access was challenged.
C3_ChallengedRequest ==
  Served /\ NeedsCredentials /\ req.method = "GET" /\ req.segs = <<INDEX_NAME>> /\ Challenged

-----------------------------------------------------------------------------
(* C4 *)

\* C4: OPTIONS never requires authentication: whatever the rules and the
\* credentials, it is never answered 401 and returns 200 with the Allow and
\* DAV headers.
C4_OptionsNeverChallenged ==
  (Served /\ req.method = "OPTIONS") =>
    /\ res.status # 401
    /\ (Dispatched => res.status = 200 /\ {"Allow", "DAV"} \subseteq res.hdrs)

-----------------------------------------------------------------------------
(* C5 *)

Calls(name) == {i \in 1..Len(ev) : ev[i] = name}

\* The body was written: the target is a file that holds the request's body.
WroteTarget ==
  /\ Calls("io::copy") # {}
  /\ Metadata(fs, Target).kind = "file"
  /\ fs[Metadata(fs, Target).p].data = req.body

\* The target is a file that the flags let PUT overwrite.
Overwritable ==
  WasFile /\ (args.allow_delete \/ Probe(old, Target, req.slash).size = 0)

\* Where a path leads once the directories missing on it are made: missing
\* names are taken as directories to be, links are followed; not ok when the
\* path runs through something that is not a directory.
RECURSIVE SlotFrom(_, _, _)
SlotFrom(f, cur, comps) ==
  IF comps = <<>> THEN [p |-> cur, ok |-> TRUE]
  ELSE IF cur \in DOMAIN f /\ f[cur].kind # "dir" THEN [p |-> cur, ok |-> FALSE]
  ELSE IF Head(comps) = DotDot THEN SlotFrom(f, Parent(cur), Tail(comps))
  ELSE IF Append(cur, Head(comps)) \in DOMAIN f /\ f[Append(cur, Head(comps))].kind = "link"
    THEN SlotFrom(f, <<>>, f[Append(cur, Head(comps))].target \o Tail(comps))
  ELSE SlotFrom(f, Append(cur, Head(comps)), Tail(comps))

\* A missing path can be created: what exists on it are directories and the
\* place it leads to is free.
Creatable(f, lex) == SlotFrom(f, <<>>, lex).ok /\ SlotFrom(f, <<>>, lex).p \notin DOMAIN f
\* A missing path runs through something that is not a directory.
Blocked(f, lex) == ~SlotFrom(f, <<>>, lex).ok

\* C5 as stated: PUT writes the target exactly when upload is allowed and
\* the target is Missing or an overwritable File; in every other case the
\* response is 403 and the filesystem is unchanged.
C5_PutWritesWhenMissing ==
  (Dispatched /\ req.method = "PUT") =>
    IF args.allow_upload /\ (WasMissing \/ Overwritable)
    THEN WroteTarget
    ELSE res.status = 403 /\ fs = old

\* C5, amended: PUT writes the target only when upload is allowed and the
\* target is Missing or an overwritable File, and does write it (201) when
\* the target is such a File or a Missing path that can be created; a
\* Missing target whose path runs through a non-directory is answered 403 or
\* 500 and nothing is written; with upload disabled, on a directory and on a
\* non-empty file without delete permission the response is 403 and the
\* filesystem is unchanged.
C5_PutWritesWhenCreatable ==
  (Dispatched /\ req.method = "PUT") =>
    /\ (Calls("io::copy") # {} => args.allow_upload /\ (WasMissing \/ Overwritable))
    /\ (args.allow_upload /\ (Overwritable \/ (WasMissing /\ Creatable(old, Target)))
          => WroteTarget /\ res.status = 201)
    /\ (args.allow_upload /\ WasMissing /\ Blocked(old, Target)
          => res.status \in {403, 500} /\ Calls("io::copy") = {})
    /\ (~args.allow_upload \/ WasDir \/ (WasFile /\ ~Overwritable)
          => res.status = 403 /\ fs = old)

\* With upload allowed, a PUT below a regular file was refused.
C5_RefusedBelowFile ==
  /\ Dispatched /\ req.method = "PUT" /\ args.allow_upload
  /\ WasMissing /\ Blocked(old, Target)
  /\ res.status = 403 /\ fs = old

\* A non-empty file was overwritten with other bytes.
C5_Overwrote ==
  /\ Dispatched /\ req.method = "PUT" /\ WasFile
  /\ Probe(old, Target, req.slash).size > 0
  /\ WroteTarget /\ fs # old

-----------------------------------------------------------------------------
(* C6 *)

\* The target is Missing and nothing is left at or below the place it was;
\* of a symbolic link, the link itself is what was there.
TargetGone == IsMissing /\ Subtree(fs, SymlinkMetadata(old, Target).p) = {}

\* C6 as stated: DELETE on a missing resource returns 404 whatever the
\* delete flag is; on an existing one it returns 403 and changes nothing when
\* delete is disabled, and removes it, with its subtree, when delete is
\* enabled.
C6_MissingIsNotFound ==
  (Dispatched /\ req.method = "DELETE") =>
    /\ (WasMissing => res.status = 404)
    /\ (~WasMissing /\ ~args.allow_delete => res.status = 403 /\ fs = old)
    /\ (~WasMissing /\ args.allow_delete => TargetGone)

\* C6, amended: with delete disabled DELETE returns 403 and changes nothing,
\* whether the resource exists or not; with delete enabled it returns 404 on
\* a missing resource and removes an existing one, a directory with its whole
\* subtree, so that it is Missing afterwards (204).
C6_ForbiddenBeforeNotFound ==
  (Dispatched /\ req.method = "DELETE") =>
    /\ (~args.allow_delete => res.status = 403 /\ fs = old)
    /\ (args.allow_delete /\ WasMissing => res.status = 404 /\ fs = old)
    /\ (args.allow_delete /\ ~WasMissing => res.status = 204 /\ TargetGone)

\* A directory that held a file was removed.
C6_RemovedDir ==
  /\ Dispatched /\ req.method = "DELETE" /\ WasDir
  /\ Subtree(old, SymlinkMetadata(old, Target).p) # {SymlinkMetadata(old, Target).p}
  /\ res.status = 204 /\ TargetGone

-----------------------------------------------------------------------------
(* C7 *)

\* C7, the file source: a COPY of a file answered 204 leaves the destination
\* holding the source's bytes and the source as it was.
C7_CopyKeepsSource ==
  (Dispatched /\ req.method = "COPY" /\ WasFile /\ args.allow_upload /\ res.status = 204) =>
    /\ Metadata(fs, DestPath).kind = "file"
    /\ fs[Metadata(fs, DestPath).p].data = old[Metadata(old, Target).p].data
    /\ Metadata(fs, Target).kind = "file"
    /\ fs[Metadata(fs, Target).p].data = old[Metadata(old, Target).p].data

\* C7, the directory source: every COPY on a directory is answered 403 and
\* creates nothing, whatever its Destination header.
C7_CopyDirForbidden ==
  (Dispatched /\ req.method = "COPY" /\ WasDir) => res.status = 403 /\ fs = old

-----------------------------------------------------------------------------
(* C8 *)

\* C8: after a MOVE answered 204 the source path is Missing, the destination
\* path holds exactly what the source held and the destination's parent
\* directories exist.
C8_MoveLeavesSourceMissing ==
  (Dispatched /\ req.method = "MOVE" /\ res.status = 204) =>
    /\ args.allow_upload /\ args.allow_delete /\ ~WasMissing
    /\ IsMissing
    /\ Walk(fs, DestPath, FALSE).st = "ok"
    /\ Shape(fs, Walk(fs, DestPath, FALSE).p) = Shape(old, Walk(old, Target, FALSE).p)
    /\ IsDirPath(fs, Parent(DestPath))

-----------------------------------------------------------------------------
(* C9 *)

\* The response to PROPFIND with Depth 0 on the request's path, asked now.
PropfindNow ==
  call(args, fs, [Plain("PROPFIND", req.segs, req.cred) EXCEPT !.depth = "0"]).res

\* C9: after a MKCOL answered 201 the directory exists and PROPFIND with
\* Depth 0 on its path returns 207 with exactly one response element, marked
\* as a collection.
C9_CreatedThenListed ==
  (Dispatched /\ req.method = "MKCOL" /\ res.status = 201) =>
    /\ WasMissing /\ args.allow_upload
    /\ IsDirPath(fs, Target)
    /\ PropfindNow.status = 207
    /\ Cardinality(PropfindNow.items) = 1
    /\ \A item \in PropfindNow.items : item_is_dir(item)

-----------------------------------------------------------------------------
(* C10 *)

RootIndex == Append(Root, INDEX_NAME)

\* The root's index.html was sent.
SentRootIndex ==
  /\ res.status = 200
  /\ Metadata(old, RootIndex).ok
  /\ res.src = Metadata(old, RootIndex).p

\* An empty listing of a directory that does not exist was sent.
SentEmptyListing ==
  /\ res.status = 200 /\ ~res.exist /\ res.items = {}
  /\ "content-type" \in res.hdrs

\* The request path ends with '/'.
EndsWithSlash == req.slash \/ req.segs = <<>>

\* C10 as stated: GET or HEAD on a missing resource returns 404 unless SPA
\* rendering is enabled, in which case the root index.html is served; nothing
\* else turns a missing resource into another answer.
C10_MissingIsNotFound ==
  (Dispatched /\ req.method \in {"GET", "HEAD"} /\ WasMissing) =>
    IF args.render_spa THEN SentRootIndex ELSE res.status = 404

\* C10, amended: GET or HEAD on a missing resource returns 404, except that
\* with SPA rendering and a path without extension the root index.html is
\* served (500 when there is none), and that without SPA rendering, with
\* upload allowed and a path ending with '/', an empty listing of a
\* directory that does not exist is returned (200).
C10_MissingUnlessSpaOrUploadDir ==
  (Dispatched /\ req.method \in {"GET", "HEAD"} /\ WasMissing) =>
    /\ fs = old
    /\ IF args.render_spa
         THEN IF HasExtension(Target) THEN res.status = 404
              ELSE IF Metadata(old, RootIndex).ok THEN SentRootIndex
              ELSE res.status = 500
       ELSE IF args.allow_upload /\ EndsWithSlash THEN SentEmptyListing
       ELSE res.status = 404

\* A missing directory was listed as empty.
C10_ListedMissingDir ==
  /\ Dispatched /\ req.method = "GET" /\ WasMissing /\ req.slash
  /\ SentEmptyListing

\* A missing path without extension got the root index.html.
C10_SpaServedIndex ==
  /\ Dispatched /\ req.method = "GET" /\ WasMissing /\ args.render_spa
  /\ SentRootIndex /\ res.data = <<1>>

-----------------------------------------------------------------------------
(* C11: the order of the decisions for GET and HEAD on a directory *)

IsGet == req.method \in {"GET", "HEAD"}

\* What a response to GET or HEAD on a directory is, read off its status and
\* headers: Not Found, a file, a ZIP archive or an HTML page of entries.
Outcome(r) ==
  IF r.status = 404 THEN "404"
  ELSE IF r.status # 200 THEN "other"
  ELSE IF "etag" \in r.hdrs THEN "file"
  ELSE IF "content-disposition" \in r.hdrs THEN "zip"
  ELSE IF "content-length" \in r.hdrs THEN "page"
  ELSE "other"

DirOf == Metadata(old, Target).p
DirHasIndex == Metadata(old, Append(Target, INDEX_NAME)).kind = "file"
\* The names of a page's entries, relative to the directory.
Names(r) == {i.name : i \in r.items}
\* The children a listing shows when links leaving the root are hidden.
Children == {<<n>> : n \in {x \in ReadDir(old, DirOf) : old[Append(DirOf, x)].kind # "link"}}
\* The descendants whose name contains the search term, links leaving the
\* root hidden.
Matches(term) ==
  {StripPrefix(q, DirOf) :
     q \in {x \in Subtree(old, DirOf) :
              x # DirOf /\ old[x].kind # "link" /\ NameContains(Last(x), term)}}

\* The order the claim states.
ClaimedOutcome ==
  IF args.render_index THEN (IF DirHasIndex THEN "file" ELSE "404")
  ELSE IF args.render_try_index THEN (IF DirHasIndex THEN "file" ELSE "page")
  ELSE IF req.query = Zip THEN "zip"
  ELSE "page"

\* The order of the code.
ActualOutcome ==
  IF args.render_try_index /\ req.query = Zip THEN "zip"
  ELSE IF args.render_index \/ args.render_spa \/ args.render_try_index
    THEN (IF DirHasIndex THEN "file" ELSE IF args.render_try_index THEN "page" ELSE "404")
  ELSE IF req.query = Zip THEN "zip"
  ELSE "page"

OnDirectory == Served /\ Dispatched /\ IsGet /\ WasDir

C11_SpaAloneNotFound ==
  /\ OnDirectory /\ args.render_spa /\ ~args.render_index /\ ~args.render_try_index
  /\ ~DirHasIndex /\ res.status = 404

-----------------------------------------------------------------------------
(* C12: satisfiable closed ranges *)

\* The file a GET or HEAD of SpecFile names, as the request found it.
TheFile == old[<<"srv", INDEX_NAME>>]
Size == Len(TheFile.data)
CurrentTag == <<TheFile.mtime, Size>>
ModifiedSecs == TheFile.mtime \div MsPerSec

OnFile == Served /\ IsGet /\ req.segs = <<INDEX_NAME>> /\ WasFile

\* The request's If-Range, if any, names the file's current state: its
\* strong tag, or a date not before its modification.
IfRangeCurrent ==
  \/ req.if_range.kind = "absent"
  \/ req.if_range.kind = "tag" /\ ~req.if_range.tag.weak /\ req.if_range.tag.v = CurrentTag
  \/ req.if_range.kind = "date" /\ req.if_range.secs >= ModifiedSecs

\* The request's If-None-Match names the current tag (or is "*"), or, without
\* If-None-Match, its If-Modified-Since is not before the modification.
ValidatorMatches ==
  IF req.if_none_match.kind # "absent"
  THEN \/ req.if_none_match.kind = "any"
       \/ \E t \in req.if_none_match.tags : t.v = CurrentTag
  ELSE req.if_modified_since.kind = "date" /\ req.if_modified_since.secs >= ModifiedSecs

SatisfiableClosed ==
  /\ OnFile /\ req.range.kind = "closed"
  /\ req.range.start <= req.range.end /\ req.range.end < Size
  /\ IfRangeCurrent

PartialContent ==
  /\ res.status = 206
  /\ "content-range" \in res.hdrs /\ "content-length" \in res.hdrs
  /\ res.content_range = [kind |-> "range", size |-> Size,
                           start |-> req.range.start, end |-> req.range.end]
  /\ res.clen = req.range.end - req.range.start + 1
  /\ req.method = "GET" =>
       res.data = SubSeq(TheFile.data, req.range.start + 1, req.range.end + 1)

\* C12 as stated: every `Range: bytes=a-b` with 0 <= a <= b < size and no
\* failing If-Range is answered 206 with `Content-Range: bytes a-b/size`,
\* Content-Length b - a + 1 and the bytes a..=b of the file as the body.
C12_RangeGivesPartial == SatisfiableClosed => PartialContent

\* C12 amended: the same, for requests without an If-None-Match or
\* If-Modified-Since that matches the file (those are answered 304 before the
\* Range is looked at); the body is sent to GET and omitted for HEAD.
C12_RangeGivesPartialUnlessCached ==
  /\ (SatisfiableClosed /\ ~ValidatorMatches) =>
       (PartialContent /\ (req.method = "HEAD" => res.data = <<>>))
  /\ (SatisfiableClosed /\ ValidatorMatches) => (res.status = 304 /\ res.data = <<>>)

\* `Range: bytes=1-1` with a current If-Range on a file of two bytes.
C12_SecondByteServed ==
  /\ SatisfiableClosed /\ req.method = "GET" /\ req.if_range.kind = "tag"
  /\ Size = 2 /\ req.range = FromTo(1, 1)
  /\ res.status = 206 /\ res.data = <<2>>

-----------------------------------------------------------------------------
(* C13: unsatisfiable ranges *)

\* A Range that parse_range parses and that the conditional headers let
\* through to the range branch.
RangeParsed ==
  /\ OnFile /\ req.range.kind \in {"open", "closed"}
  /\ IfRangeCurrent /\ ~ValidatorMatches

Unsatisfiable ==
  \/ req.range.start >= Size
  \/ req.range.kind = "closed" /\ req.range.end < req.range.start

\* C13: every parsed Range that is unsatisfiable (start >= size, open or
\* closed, any range on an empty file, or end < start) is answered 416 with
\* `Content-Range: bytes */size`: no arithmetic underflow (which panics or
\* wraps) and no 206 whose end is below its start.
C13_UnsatisfiableIs416 ==
  (RangeParsed /\ Unsatisfiable) =>
    /\ res.status = 416
    /\ res.content_range = [kind |-> "unsatisfied", size |-> Size, start |-> 0, end |-> 0]

-----------------------------------------------------------------------------
(* C14: revalidation with the ETag *)

\* A GET of the same file, the file unchanged, that carries the ETag just
\* received in If-None-Match, with any Range and If-Modified-Since besides.
Revalidation(r, ims) ==
  call(args, fs, [Plain("GET", req.segs, req.cred)
                    EXCEPT !.if_none_match = Tags({res.etag}), !.range = r,
                           !.if_modified_since = ims]).res

GotTagged == OnFile /\ req.method = "GET" /\ res.status = 200 /\ "etag" \in res.hdrs

\* C14: a GET answered 200 with an ETag, followed (the file not modified in
\* between) by a GET whose If-None-Match is that ETag, gets 304 the second
\* time; and the ETag is the file's mtime in milliseconds and its size,
\* nothing else.
C14_EtagRevalidates ==
  GotTagged =>
    /\ fs = old
    /\ res.etag = Tag(FALSE, TheFile.mtime, Size)
    /\ \A r \in {NoRange, From(0), FromTo(0, 0)}, ims \in {NoDate, Date(0)} :
         \E again \in {Revalidation(r, ims)} : again.status = 304 /\ again.data = <<>>

\* A file of two bytes sent whole, and not sent again on revalidation.
C14_Revalidated ==
  /\ GotTagged /\ res.data = <<1, 2>> /\ res.etag.v = <<2 * MsPerSec - 1, 2>>
  /\ Revalidation(NoRange, NoDate).status = 304

-----------------------------------------------------------------------------
(* C15: the 304 response *)

\* C15: a 304 has no body and carries the file's ETag and Last-Modified; and
\* a request with If-None-Match is answered by that header alone, whatever
\* its If-Modified-Since says.
C15_NotModifiedEchoesValidators ==
  /\ (OnFile /\ res.status = 304) =>
       /\ res.data = <<>>
       /\ "etag" \in res.hdrs /\ res.etag = Tag(FALSE, TheFile.mtime, Size)
       /\ "last-modified" \in res.hdrs /\ res.last_modified = ModifiedSecs
  /\ (OnFile /\ req.if_none_match.kind # "absent") =>
       (res.status = 304) = ValidatorMatches

-----------------------------------------------------------------------------
(* C16: the Depth of PROPFIND on a directory *)

PropfindOnDir == Served /\ Dispatched /\ req.method = "PROPFIND" /\ WasDir

\* The names of the children of the directory that a listing shows, relative
\* to the root: a link whose target lies outside the root is hidden unless
\* links may be followed.
ShownChildren ==
  {Append(req.segs, n) :
     n \in {x \in ReadDir(old, DirOf) :
              \/ args.allow_symlink
              \/ old[Append(DirOf, x)].kind # "link"
              \/ is_root_contained(old, Append(Target, x))}}

SelfOnly == res.status = 207 /\ Names(res) = {req.segs}
SelfAndChildren == res.status = 207 /\ Names(res) = {req.segs} \cup ShownChildren

\* C16 as stated: Depth 0 lists the directory alone, Depth 1 the directory
\* and its immediate children, and `Depth: infinity` and an absent Depth are
\* answered like Depth 1.
C16_InfinityLikeDepthOne ==
  PropfindOnDir =>
    /\ req.depth = "0" => SelfOnly
    /\ req.depth \in {"1", "infinity", "absent"} => SelfAndChildren

\* C16 amended: a Depth that is not an unsigned integer, `infinity` included,
\* is answered 400 with no multistatus; Depth 0 lists the directory alone; an
\* absent Depth and every other integer list the directory and its immediate
\* children.
C16_InfinityIsBadRequest ==
  PropfindOnDir =>
    /\ req.depth = "infinity" => (res.status = 400 /\ res.items = {})
    /\ req.depth = "0" => SelfOnly
    /\ req.depth \in {"1", "2", "absent"} => SelfAndChildren
    /\ fs = old

\* PROPFIND with Depth 1 on the root: the root, index.html, e and d, and not
\* the link that leaves the root.
C16_RootAndChildren ==
  /\ PropfindOnDir /\ req.segs = <<>> /\ req.depth = "1" /\ ~args.allow_symlink
  /\ Names(res) = {<<>>, <<INDEX_NAME>>, <<"e">>, <<"d">>}

-----------------------------------------------------------------------------
(* C17: path resolution with a prefix *)

\* Paths below the root, by their names.
LogicalPaths ==
  {<<>>, <<"x">>, <<"a b">>, <<"x", "a b">>, <<INDEX_NAME>>, <<"x", INDEX_NAME>>,
   <<"d">>, <<"n">>}

\* The request path is the prefix followed by the encoding of p.
Names_(p) == req.segs = args.path_prefix \o encode_uri(p)

HasBadEscape == \E i \in 1..Len(req.segs) : req.segs[i] = BadEscape
LacksPrefix ==
  /\ ~HasBadEscape /\ args.path_prefix # <<>>
  /\ ~StartsWith(DecodeAll(req.segs), args.path_prefix)

\* The request resolved to root/p: a GET of it sends the file there, a PUT
\* with upload allowed writes there, and a missing p is Not Found.
ResolvedTo(p) ==
  /\ extract_path(args, req.segs) = [some |-> TRUE, path |-> Join(Root, p)]
  /\ (req.method = "GET" /\ Join(Root, p) \in DOMAIN old /\ old[Join(Root, p)].kind = "file")
       => (res.status = 200 /\ res.src = Join(Root, p) /\ res.data = old[Join(Root, p)].data)
  /\ (IsGet /\ Join(Root, p) \notin DOMAIN old /\ ~args.allow_upload)
       => res.status = 404
  /\ (req.method = "PUT" /\ args.allow_upload /\ Join(Root, p) \notin DOMAIN old)
       => (res.status = 201 /\ fs = Put(old, Join(Root, p), FileNode(req.body)))

\* C17 as stated: x + encode(p) resolves to root/p, the prefix stripped
\* once; an invalid percent escape or a missing prefix is rejected with 404.
C17_RejectedWithNotFound ==
  Served =>
    /\ \A p \in LogicalPaths : Names_(p) => ResolvedTo(p)
    /\ (HasBadEscape \/ LacksPrefix) => res.status = 404

\* C17 amended: the same, the rejection being 403 Forbidden, with nothing
\* changed in the filesystem; GET /favicon.ico is answered before the path
\* is resolved, prefix or not.
C17_RejectedWithForbidden ==
  Served =>
    /\ \A p \in LogicalPaths : Names_(p) => ResolvedTo(p)
    /\ ((HasBadEscape \/ LacksPrefix) /\ ~IsFaviconRequest(req)) =>
         (res.status = 403 /\ res.kind = "Forbidden" /\ fs = old)
    /\ IsFaviconRequest(req) => (res.status = 200 /\ fs = old)

\* With prefix x, GET /x/x/a%20b sends root/x/"a b".
C17_StrippedOnce ==
  /\ Served /\ args.path_prefix = <<"x">> /\ req.method = "GET"
  /\ req.segs = <<"x", "x", "a%20b">>
  /\ res.status = 200 /\ res.src = <<"srv", "x", "a b">> /\ res.data = <<2>>

\* With prefix x, GET /index.html is rejected.
C17_WithoutPrefixRejected ==
  /\ Served /\ args.path_prefix = <<"x">> /\ req.segs = <<INDEX_NAME>>
  /\ res.status = 403

-----------------------------------------------------------------------------
(* C18: two concurrent PUT requests to one path *)

BothStored ==
  /\ \A t \in Tasks : uploads[t].pc = "done" /\ uploads[t].status = 201
  /\ uploads[1].path = uploads[2].path

\* C18: once two concurrent PUTs to the same path have both completed, the
\* file holds the whole payload of one of them, not a mixture of the two and
\* not a part of one.
C18_OnePayloadSurvives ==
  BothStored =>
    fs[Join(Root, uploads[1].path)].data \in {uploads[1].body, uploads[2].body}

-----------------------------------------------------------------------------
(* C19: the ZIP producer ends *)

\* The archives zip_dir can write for the directory the request names.
Archives ==
  {ArchiveUnits(o) : o \in Orders(ZipEntries(fs, Join(Root, req.segs)))}

Written == zip.got \o zip.pipe

ZipEnded == zip.pc \in {"done", "failed"}

\* The producer waits on a full pipe.
ZipBlocked == zip.pc = "running" /\ zip.todo # <<>> /\ ~ENABLED ZipWrite

ZipSafe ==
  /\ Len(zip.pipe) <= PipeCap
  /\ zip.pc = "done" => Written \in Archives
  /\ zip.reader = "eof" => zip.pc = "done" /\ zip.got \in Archives
  /\ zip.pc = "failed" => zip.reader = "dropped"
  /\ ZipBlocked => zip.reader = "open" /\ Len(zip.pipe) = PipeCap

C19_ReadToTheEnd ==
  /\ zip.reader = "eof" /\ req.segs = <<>> /\ Len(zip.got) = 9

-----------------------------------------------------------------------------
(* C20: PUT below missing directories, then GET *)

\* The response to GET on the request's path, asked now.
GetNow == call(args, fs, Plain("GET", req.segs, req.cred)).res

\* The target's parent directory did not exist when the request arrived.
ParentMissing == ~SymlinkMetadata(old, Parent(Target)).ok

\* C20: with upload allowed, a PUT to a path whose parent directories do not
\* exist creates them, stores the payload and is answered 201, and a GET of
\* the same path that follows is answered 200 with the payload as its body
\* and the payload's length as Content-Length.
C20_PutThenGet ==
  (Served /\ req.method = "PUT" /\ args.allow_upload /\ ParentMissing) =>
    /\ res.status = 201
    /\ IsDirPath(fs, Parent(Target))
    /\ Metadata(fs, Target).kind = "file"
    /\ GetNow.status = 200
    /\ GetNow.data = req.body
    /\ GetNow.clen = Len(req.body)

\* The same for targets that stay inside the root and are not below a
\* regular file.
C20_PutThenGetInside ==
  (Served /\ req.method = "PUT" /\ args.allow_upload /\ ParentMissing
     /\ req.segs \in {<<"n", "m">>, <<"d", "n", "m">>}) =>
    /\ res.status = 201
    /\ IsDirPath(fs, Parent(Target))
    /\ Metadata(fs, Target).kind = "file"
    /\ GetNow.status = 200
    /\ GetNow.data = req.body
    /\ GetNow.clen = Len(req.body)

-----------------------------------------------------------------------------
(* C21: permission denied *)

\* The directory that holds the entry lex names, where it is resolved.
HolderOf(f, lex) == Metadata(f, Parent(lex)).p

HolderLocked(f, lex) == Metadata(f, Parent(lex)).ok /\ Locked(f, HolderOf(f, lex))

\* The operation the request asks for is reached and the operating system
\* refuses it with permission denied: an entry is to be made in, or taken
\* out of, a directory that denies writing, or a directory that denies
\* reading is to be listed.
DeniedBySystem ==
  \/ /\ req.method \in {"PUT", "MKCOL"}
     /\ ~Metadata(old, Target).ok /\ HolderLocked(old, Target)
  \/ /\ req.method = "DELETE"
     /\ SymlinkMetadata(old, Target).kind = "file" /\ HolderLocked(old, Target)
  \/ /\ req.method \in {"COPY", "MOVE"} /\ req.dest.some
     /\ SymlinkMetadata(old, Target).kind = "file"
     /\ ~Metadata(old, DestPath).ok /\ HolderLocked(old, DestPath)
  \/ /\ req.method = "GET" /\ req.query = NoQuery
     /\ Metadata(old, Target).ok /\ Locked(old, Metadata(old, Target).p)
  \/ /\ req.method = "PROPFIND" /\ req.depth = "absent"
     /\ Metadata(old, Target).ok /\ Locked(old, Metadata(old, Target).p)

\* C21: a request whose filesystem operation fails with permission denied
\* (creating the file for PUT, removing for DELETE, mkdir for MKCOL, copy or
\* rename for COPY and MOVE, reading a directory for a listing or PROPFIND)
\* is answered 403, not 500.
C21_DeniedIsForbidden ==
  (Served /\ DeniedBySystem) => res.status = 403

\* The operations whose refusal the code does answer with 403: File::create
\* and the reading of a directory.
C21_CreateAndListingForbidden ==
  (Served /\ DeniedBySystem /\ req.method \in {"PUT", "GET", "PROPFIND"}) =>
    res.status = 403 /\ fs = old

\* The operations whose refusal the code answers with 500.
C21_OthersInternalError ==
  (Served /\ DeniedBySystem /\ req.method \in {"DELETE", "MKCOL", "COPY", "MOVE"}) =>
    res.status = 500 /\ fs = old

-----------------------------------------------------------------------------
(* C22: the empty access-log template *)

\* What Server::call handed to the logger for the request just served.
Logged == call(args, old, req).log

\* C22: with an empty access-log template, handling a request writes no
\* access-log line, whatever the outcome of the request.
C22_EmptyTemplateSilent ==
  (Served /\ args.log_http = <<>>) => Logged = <<>>

\* What the code does instead: one line for every request, whatever the
\* template, at the level error for an Err of the handler and info otherwise.
C22_AlwaysOneLine ==
  Served =>
    Logged = <<LogLine(IF res.status = 500 THEN "error" ELSE "info", res.status)>>

-----------------------------------------------------------------------------
(* C23: hidden names *)

\* The response lists entries: an HTML index, a search result or a PROPFIND
\* answer.
IsListing ==
  /\ Served /\ req.method \in {"GET", "PROPFIND"}
  /\ res.status \in {200, 207}
  /\ res.items # {}

\* The names of the entries listed (the last component of each path).
ListedNames == {Last(i.name) : i \in {x \in res.items : x.name # <<>>}}

\* C23: no directory listing (HTML index, search result, PROPFIND children)
\* has an entry whose name is one of the configured hidden names.
C23_HiddenNotListed ==
  IsListing => ListedNames \cap args.hidden = {}

\* What the code does instead: a listing of a directory has every entry of
\* it that a listing without --hidden has.
C23_HiddenIgnored ==
  IsListing => res = call([args EXCEPT !.hidden = {}], old, req).res

-----------------------------------------------------------------------------
(* C24: the probe and the open of a PUT *)

\* Task t opens its target in this step (File::create).
Opens(t) == uploads[t].pc = "admitted" /\ uploads'[t].pc = "open"

\* The length of the file at the target of task t, 0 when there is none.
TargetLen(t) == Metadata(fs, Join(Root, uploads[t].path)).len

\* C24: with upload allowed and delete disallowed, under every interleaving
\* of concurrent requests no PUT truncates a file that is non-empty at the
\* moment the PUT opens it.
C24_NoTruncationOfNonEmpty ==
  [][\A t \in Tasks : (~args.allow_delete /\ Opens(t)) => TargetLen(t) = 0]_vars

\* What does hold: the file was empty or missing when the PUT probed it,
\* which is when a PUT that is admitted took its decision.
C24_EmptyWhenProbed ==
  [][\A t \in Tasks :
       (~args.allow_delete /\ uploads[t].pc = "idle" /\ uploads'[t].pc = "admitted")
         => Metadata(fs, Join(Root, uploads'[t].path)).len = 0]_vars

-----------------------------------------------------------------------------
(* C25: the root is a single regular file *)

\* Access control lets the request through: the guard's verdict on it is not
\* a rejection.
PassesAccessControl == guard(args.auth, req.segs, req.method, req.cred) # "Reject"

\* The response is the root file: its content, or for HEAD its headers only.
ServesRootFile ==
  /\ res.status = 200
  /\ res.src = Root
  /\ res.clen = Len(old[Root].data)
  /\ res.data = IF req.method = "HEAD" THEN <<>> ELSE old[Root].data

\* C25: when the root is a single regular file, every request that passes
\* access control, whatever its method and path, is answered by serving that
\* file, and no request modifies the filesystem.
C25_EveryRequestServesFile ==
  (Served /\ args.path_is_file) =>
    /\ fs = old
    /\ PassesAccessControl => ServesRootFile

\* C25 but for GET /favicon.ico: that request is answered with the built-in
\* icon, whatever access control says of it (nothing is below a root that is
\* a file); every other request that passes access control is answered with
\* the root file, one that does not is challenged, and no request modifies
\* the filesystem.
C25_ServesFileButFavicon ==
  (Served /\ args.path_is_file) =>
    /\ fs = old
    /\ IF IsFaviconRequest(req)
         THEN res.status = 200 /\ res.kind = "favicon" /\ ev = <<>>
       ELSE /\ PassesAccessControl => ServesRootFile
            /\ ~PassesAccessControl => res.status = 401

\* DELETE /n with delete allowed is answered with the file, which stays.
C25_DeleteServesFile ==
  /\ Served /\ args.path_is_file /\ args.allow_delete
  /\ req.method = "DELETE" /\ req.segs = <<"n">>
  /\ res.status = 200 /\ res.data = <<1, 2>> /\ fs = FileRootFs

=============================================================================
